---- MODULE Spec2Model ----
(***************************************************************************)
(* Alert-rule group mutation and reconciliation: calculateChanges,         *)
(* calculateAutomaticChanges, verifyProvisionedRulesNotAffected,           *)
(* RulerSrv.updateAlertRulesInGroup and RulerSrv.RouteDeleteAlertRules,    *)
(* run by concurrent requests against one rule table, one provenance       *)
(* table and one scheduler.                                                *)
(***************************************************************************)
EXTENDS Integers, Sequences, FiniteSets, TLC

\* ------------------------------------------------------------------ bounds

\* Largest number of rules one submitted group definition carries.
MaxSubmit == 2

\* ---------------------------------------------------------------- universe

Range(s) == {s[i] : i \in 1..Len(s)}

\* Row order of the rule table: a rule's row ID is its position here.
UIDOrder == <<"u1", "u2", "u3", "u4", "n1", "n2">>
UIDs == Range(UIDOrder)
\* UIDs the store hands out to inserted rules, in this order.
FreshUIDs == <<"n1", "n2">>
\* UIDs a client may put into a submitted rule; "ux" is never persisted.
SubmitUIDs == {"u1", "u2", "u3", "u4", "ux"}
NoUID == ""
NoData == ""
DataSources == {"d1", "d2"}
OrgID == "org1"

\* Provenance values; NoRecord stands for a UID the provenance table has no row for.
ProvenanceNone == ""
ProvenanceAPI == "api"
ProvenanceFile == "file"
NoRecord == "norecord"

StatusOK == 200
StatusAccepted == 202
StatusBadRequest == 400
StatusUnauthorized == 401
StatusForbidden == 403
StatusNotFound == 404
StatusConflict == 409
StatusInternalServerError == 500

AlertRuleGroupKey(ns, grp) == [OrgID |-> OrgID, NamespaceUID |-> ns, RuleGroup |-> grp]
GroupA == AlertRuleGroupKey("f1", "g1")
GroupB == AlertRuleGroupKey("f1", "g2")
GroupC == AlertRuleGroupKey("f2", "g1")
GroupKeys == {GroupA, GroupB, GroupC}

AlertRule(uid, key, idx, data, ver) ==
    [UID |-> uid, OrgID |-> key.OrgID, NamespaceUID |-> key.NamespaceUID,
     RuleGroup |-> key.RuleGroup, RuleGroupIndex |-> idx, Data |-> data, Version |-> ver]

GetGroupKey(rule) ==
    [OrgID |-> rule.OrgID, NamespaceUID |-> rule.NamespaceUID, RuleGroup |-> rule.RuleGroup]
GetKey(rule) == [OrgID |-> rule.OrgID, UID |-> rule.UID]

RuleID(uid) == CHOOSE i \in 1..Len(UIDOrder) : UIDOrder[i] = uid

\* Every ordering of a finite set as a sequence: the orders a Go map range can take.
Orderings(S) ==
    {s \in [1..Cardinality(S) -> S] : \A i, j \in 1..Cardinality(S) : i # j => s[i] # s[j]}

\* ------------------------------------------------------------- model types

\* ID and Updated are carried by the rules of the diff specification only.
alertRuleFields ==
    {"ID", "UID", "OrgID", "NamespaceUID", "RuleGroup", "RuleGroupIndex", "Data", "Version",
     "Updated"}
\* Variants of the ignore list: one that compares versions, one that overlooks
\* the group index.
ignoreWithoutVersion == {"ID", "Updated"}
ignoreWithGroupIndex == {"ID", "Version", "Updated", "RuleGroupIndex"}
\* A variant that ignores the version alone.
ignoreVersionOnly == {"Version"}
alertRuleFieldsToIgnoreInDiff == {"ID", "Version", "Updated"}

\* AlertRule.Diff: the names of the fields in which two rules differ, minus the ignored ones.
Diff(a, b, ignore) == {f \in (alertRuleFields \cap DOMAIN a) \ ignore : a[f] # b[f]}

\* PatchPartialAlertRule: a submitted rule that carries no query takes the persisted one.
PatchPartialAlertRule(existing, r) ==
    IF r.Data = NoData THEN [r EXCEPT !.Data = existing.Data] ELSE r

\* RulesGroup.SortByGroupIndex: ascending group index, ties by row ID.
RuleLess(a, b) ==
    \/ a.RuleGroupIndex < b.RuleGroupIndex
    \/ a.RuleGroupIndex = b.RuleGroupIndex /\ RuleID(a.UID) < RuleID(b.UID)

RECURSIVE SortSet(_, _)
SortSet(S, byIndex) ==
    IF S = {} THEN <<>>
    ELSE LET m == CHOOSE r \in S : \A q \in S \ {r} :
                      IF byIndex THEN RuleLess(r, q) ELSE RuleID(r.UID) < RuleID(q.UID)
         IN <<m>> \o SortSet(S \ {m}, byIndex)

SortByGroupIndex(rules) == SortSet(Range(rules), TRUE)

\* ---------------------------------------------------------------- rule store

\* ListAlertRules by group key: the rows of the group in row order.
ListAlertRules(rs, key) == SortSet({r \in rs : GetGroupKey(r) = key}, FALSE)

\* ListAlertRules by namespace and optional group ("" selects the whole
\* namespace), within the org of the signed-in user.
ListNamespaceRules(rs, ns, grp) ==
    SortSet({r \in rs : /\ r.OrgID = OrgID
                        /\ r.NamespaceUID = ns
                        /\ (grp = "" \/ r.RuleGroup = grp)}, FALSE)

\* GetAlertRulesGroupByRuleUID: the whole group holding the rule, empty if unknown.
GetAlertRulesGroupByRuleUID(rs, uid) ==
    IF \E r \in rs : r.UID = uid
    THEN ListAlertRules(rs, GetGroupKey(CHOOSE r \in rs : r.UID = uid))
    ELSE <<>>

\* InsertAlertRules: each new row gets the next unused UID and version 1.
InsertAlertRules(rs, news, next) ==
    rs \cup {[news[i] EXCEPT !.UID = FreshUIDs[next + i], !.Version = 1] : i \in 1..Len(news)}

\* UpdateAlertRules: one row at a time; a row is written only where the stored
\* version is still the one the update carries, else the call fails.
RECURSIVE UpdateAlertRules(_, _, _)
UpdateAlertRules(rs, updates, i) ==
    IF i > Len(updates) THEN [err |-> "", rules |-> rs]
    ELSE LET u == updates[i]
             hit == {r \in rs : r.UID = u.Existing.UID /\ r.Version = u.Existing.Version}
         IN IF hit = {} THEN [err |-> "ErrOptimisticLock", rules |-> rs]
            ELSE UpdateAlertRules(
                     (rs \ hit) \cup {[u.New EXCEPT !.UID = u.Existing.UID,
                                                     !.Version = u.Existing.Version + 1]},
                     updates, i + 1)

DeleteAlertRulesByUID(rs, uids) == {r \in rs : r.UID \notin uids}

\* ------------------------------------------------------------ calculateChanges

Cache(rules) == [u \in {rules[i].UID : i \in 1..Len(rules)} |->
                    CHOOSE r \in Range(rules) : r.UID = u]

\* A variant that takes a rule with an unknown UID for a new rule.
AdoptAsNew(st, r) == [st EXCEPT !.toAdd = Append(@, r)]

\* The rule's UID is not in the group and the query by UID finds no rule.
RuleNotFound(st, r) == [st EXCEPT !.err = "ErrAlertRuleNotFound"]

\* One iteration of the loop over the submitted rules.
CalcStep(rs, existingGroupRules, st, r) ==
    LET inGroup == r.UID # NoUID /\ r.UID \in st.existingGroupRulesUIDs
        cached == r.UID # NoUID /\ ~inGroup /\ r.UID \in DOMAIN st.loadedRulesByUID
        query == r.UID # NoUID /\ ~inGroup /\ ~cached
        q == GetAlertRulesGroupByRuleUID(rs, r.UID)
        found == IF inGroup THEN {e \in Range(existingGroupRules) : e.UID = r.UID}
                 ELSE IF cached THEN {st.loadedRulesByUID[r.UID]}
                 ELSE IF query THEN {e \in Range(q) : e.UID = r.UID}
                 ELSE {}
        st1 == [st EXCEPT
                  !.existingGroupRulesUIDs = IF inGroup THEN @ \ {r.UID} ELSE @,
                  !.loadedRulesByUID = IF query THEN Cache(q) @@ @ ELSE @]
    IN IF query /\ found = {} THEN RuleNotFound(st1, r)
       ELSE IF found = {} THEN [st1 EXCEPT !.toAdd = Append(@, r)]
       ELSE LET existing == CHOOSE e \in found : TRUE
                new == PatchPartialAlertRule(existing, r)
                diff == Diff(existing, new, alertRuleFieldsToIgnoreInDiff)
                st2 == [st1 EXCEPT !.affectedGroups =
                            IF query THEN (GetGroupKey(existing) :> q) @@ @ ELSE @]
            IN IF diff = {} THEN st2
               ELSE [st2 EXCEPT !.toUpdate =
                        Append(@, [Existing |-> existing, New |-> new, Diff |-> diff])]

RECURSIVE CalcLoop(_, _, _, _, _)
CalcLoop(rs, existingGroupRules, submittedRules, i, st) ==
    IF i > Len(submittedRules) \/ st.err # "" THEN st
    ELSE CalcLoop(rs, existingGroupRules, submittedRules, i + 1,
                  CalcStep(rs, existingGroupRules, st, submittedRules[i]))

\* A variant that does not enter the target group into the affected groups.
CalcResultWithoutTarget(rs, groupKey, submittedRules) ==
    LET existingGroupRules == ListAlertRules(rs, groupKey)
    IN CalcLoop(rs, existingGroupRules, submittedRules, 1,
           [err |-> "",
            existingGroupRulesUIDs |-> {e.UID : e \in Range(existingGroupRules)},
            loadedRulesByUID |-> <<>>,
            affectedGroups |-> <<>>,
            toAdd |-> <<>>,
            toUpdate |-> <<>>])

CalcResult(rs, groupKey, submittedRules) ==
    LET existingGroupRules == ListAlertRules(rs, groupKey)
    IN CalcLoop(rs, existingGroupRules, submittedRules, 1,
           [err |-> "",
            existingGroupRulesUIDs |-> {e.UID : e \in Range(existingGroupRules)},
            loadedRulesByUID |-> <<>>,
            affectedGroups |-> IF Len(existingGroupRules) > 0
                               THEN (groupKey :> existingGroupRules) ELSE <<>>,
            toAdd |-> <<>>,
            toUpdate |-> <<>>])

\* A variant that forgets which UIDs the submission claimed.
AllGroupUIDs(rs, groupKey, submittedRules) ==
    {e.UID : e \in {x \in rs : GetGroupKey(x) = groupKey}}

\* The UIDs left in existingGroupRulesUIDs after the loop.
Unclaimed(rs, groupKey, submittedRules) ==
    CalcResult(rs, groupKey, submittedRules).existingGroupRulesUIDs

\* calculateChanges; delOrder is the order in which the final range over
\* existingGroupRulesUIDs visits the unclaimed UIDs.
calculateChanges(rs, groupKey, submittedRules, delOrder) ==
    LET st == CalcResult(rs, groupKey, submittedRules)
    IN [err |-> st.err,
        GroupKey |-> groupKey,
        AffectedGroups |-> st.affectedGroups,
        New |-> st.toAdd,
        Update |-> st.toUpdate,
        Delete |-> [i \in 1..Len(delOrder) |->
                       CHOOSE e \in rs : e.UID = delOrder[i] /\ GetGroupKey(e) = groupKey]]

isEmpty(c) == Len(c.Update) + Len(c.New) + Len(c.Delete) = 0

\* --------------------------------------------------- calculateAutomaticChanges

\* The inner loop over the rules of one affected group.
RECURSIVE AutoGroup(_, _, _, _, _)
AutoGroup(rules, isTarget, updatingRules, i, idx) ==
    IF i > Len(rules) THEN <<>>
    ELSE LET rule == rules[i]
         IN IF GetKey(rule) \in updatingRules
            THEN AutoGroup(rules, isTarget, updatingRules, i + 1, idx)
            ELSE LET new == IF ~isTarget /\ rule.RuleGroupIndex # idx
                            THEN [rule EXCEPT !.RuleGroupIndex = idx] ELSE rule
                     upd == [Existing |-> rule, New |-> new,
                             Diff |-> Diff(rule, new, alertRuleFieldsToIgnoreInDiff)]
                 IN <<upd>> \o AutoGroup(rules, isTarget, updatingRules, i + 1,
                                         IF isTarget THEN idx ELSE idx + 1)

\* A variant that leaves every list in the order the store returned it.
AutoRulesUnsorted(ch, groupKey) == ch.AffectedGroups[groupKey]

\* The rule list of an affected group as the loop sees it (and leaves it): the
\* lists of the groups other than the target are sorted in place.
AutoRules(ch, groupKey) ==
    IF groupKey # ch.GroupKey THEN SortByGroupIndex(ch.AffectedGroups[groupKey])
    ELSE ch.AffectedGroups[groupKey]

RECURSIVE AutoLoop(_, _, _, _)
AutoLoop(ch, updatingRules, groupOrder, g) ==
    IF g > Len(groupOrder) THEN <<>>
    ELSE AutoGroup(AutoRules(ch, groupOrder[g]), groupOrder[g] = ch.GroupKey, updatingRules, 1, 1)
         \o AutoLoop(ch, updatingRules, groupOrder, g + 1)

\* A variant that does not leave out the rules the delta updates or deletes.
calculateAutomaticChangesOfAll(ch, groupOrder) ==
    [err |-> ch.err,
     GroupKey |-> ch.GroupKey,
     AffectedGroups |-> [k \in DOMAIN ch.AffectedGroups |-> AutoRules(ch, k)],
     New |-> ch.New,
     Update |-> ch.Update \o AutoLoop(ch, {}, groupOrder, 1),
     Delete |-> ch.Delete]

\* A variant that gives the rules of the target group their position as index.
calculateAutomaticChangesReindexingAll(ch, groupOrder) ==
    LET updatingRules == {GetKey(ch.Update[i].Existing) : i \in 1..Len(ch.Update)}
                         \cup {GetKey(ch.Delete[i]) : i \in 1..Len(ch.Delete)}
        NoTarget == [ch EXCEPT !.GroupKey = AlertRuleGroupKey("", "")]
    IN [err |-> ch.err,
        GroupKey |-> ch.GroupKey,
        AffectedGroups |-> [k \in DOMAIN ch.AffectedGroups |-> AutoRules(ch, k)],
        New |-> ch.New,
        Update |-> ch.Update \o AutoLoop(NoTarget, updatingRules, groupOrder, 1),
        Delete |-> ch.Delete]

\* calculateAutomaticChanges; groupOrder is the order in which the range over
\* AffectedGroups visits the groups.
calculateAutomaticChanges(ch, groupOrder) ==
    LET updatingRules == {GetKey(ch.Update[i].Existing) : i \in 1..Len(ch.Update)}
                         \cup {GetKey(ch.Delete[i]) : i \in 1..Len(ch.Delete)}
    IN [err |-> ch.err,
        GroupKey |-> ch.GroupKey,
        AffectedGroups |-> [k \in DOMAIN ch.AffectedGroups |-> AutoRules(ch, k)],
        New |-> ch.New,
        Update |-> ch.Update \o AutoLoop(ch, updatingRules, groupOrder, 1),
        Delete |-> ch.Delete]

\* ------------------------------------------------------------- authorization

\* A principal: with access control disabled the role decides (an editor passes
\* every check), otherwise the data sources the principal may query.
Principals ==
    {[IsDisabled |-> TRUE, access |-> DataSources]}
    \cup {[IsDisabled |-> FALSE, access |-> a] : a \in {{}, {"d1"}, DataSources}}

\* authorizeDatasourceAccessForRule: query access to the data source the rule reads.
authorizeDatasourceAccessForRule(rule, principal) == rule.Data \in principal.access

\* authorizeRuleChanges: every deleted rule (as persisted), every new rule and
\* every updated rule (as submitted) must be accessible.
authorizeRuleChanges(ch, principal) ==
    IF /\ \A i \in 1..Len(ch.Delete) : authorizeDatasourceAccessForRule(ch.Delete[i], principal)
       /\ \A i \in 1..Len(ch.New) : authorizeDatasourceAccessForRule(ch.New[i], principal)
       /\ \A i \in 1..Len(ch.Update) : authorizeDatasourceAccessForRule(ch.Update[i].New, principal)
    THEN "" ELSE "ErrAuthorization"

\* ----------------------------------------- verifyProvisionedRulesNotAffected

\* The groups the error message names: those holding a rule whose provenance
\* record exists and is not ProvenanceNone.
ProvisionedGroups(provs, ch) ==
    {g \in DOMAIN ch.AffectedGroups :
        \E i \in 1..Len(ch.AffectedGroups[g]) :
            provs[ch.AffectedGroups[g][i].UID] \notin {NoRecord, ProvenanceNone}}

\* A variant of the inner loop without the break: one entry per provisioned rule.
GroupMsgPerRule(provs, group, alertRules, i) ==
    [k \in 1..Cardinality({j \in 1..Len(alertRules) :
                              provs[alertRules[j].UID] \notin {NoRecord, ProvenanceNone}}) |-> group]

\* The inner loop: the group is written to the message at its first rule with
\* a provenance other than none, and the loop breaks.
RECURSIVE GroupMsg(_, _, _, _)
GroupMsg(provs, group, alertRules, i) ==
    IF i > Len(alertRules) THEN <<>>
    ELSE IF provs[alertRules[i].UID] \in {NoRecord, ProvenanceNone}
    THEN GroupMsg(provs, group, alertRules, i + 1)
    ELSE <<group>>

\* The groups the error message lists, in the order the range over
\* AffectedGroups visits them.
RECURSIVE errorMsg(_, _, _, _)
errorMsg(provs, ch, groupOrder, g) ==
    IF g > Len(groupOrder) THEN <<>>
    ELSE GroupMsg(provs, groupOrder[g], ch.AffectedGroups[groupOrder[g]], 1)
         \o errorMsg(provs, ch, groupOrder, g + 1)

\* A variant that looks only at the rules the delta updates or deletes.
verifyChangedRulesNotProvisioned(provs, ch) ==
    IF \E u \in {ch.Update[i].Existing.UID : i \in 1..Len(ch.Update)}
                \cup {ch.Delete[i].UID : i \in 1..Len(ch.Delete)} :
           provs[u] \notin {NoRecord, ProvenanceNone}
    THEN "errProvisionedResource" ELSE ""

verifyProvisionedRulesNotAffected(provs, ch) ==
    IF ProvisionedGroups(provs, ch) = {} THEN "" ELSE "errProvisionedResource"

\* ------------------------------------------------------------- transactions

\* What a store or quota call of the transaction can be made to fail with.
Faults == {"none", "insert", "update", "delete", "quota", "commit"}

StoreCall(name, uids) == [name |-> name, uids |-> uids]

\* A variant whose writes stay when a later step of the transaction fails.
PersistWithoutRollback(rs, fc, next, fault, limitReached) ==
    LET upd == UpdateAlertRules(InsertAlertRules(rs, fc.New, next), fc.Update, 1)
        del == DeleteAlertRulesByUID(upd.rules, {fc.Delete[i].UID : i \in 1..Len(fc.Delete)})
    IN [err |-> IF upd.err # "" THEN upd.err
                ELSE IF Len(fc.New) > 0 /\ limitReached THEN "ErrQuotaReached" ELSE "",
        calls |-> <<StoreCall("InsertAlertRules", <<>>)>>,
        rules |-> del]

\* A variant that writes the rows whatever UpdateAlertRules answers.
PersistIgnoringLock(rs, fc, next, fault, limitReached) ==
    LET ins == InsertAlertRules(rs, fc.New, next)
        written == {[fc.Update[i].New EXCEPT !.UID = fc.Update[i].Existing.UID,
                                             !.Version = fc.Update[i].Existing.Version + 1] :
                       i \in 1..Len(fc.Update)}
        kept == {r \in ins : r.UID \notin {w.UID : w \in written}}
    IN [err |-> "",
        calls |-> <<StoreCall("InsertAlertRules", <<>>)>>,
        rules |-> DeleteAlertRulesByUID(kept \cup written,
                                        {fc.Delete[i].UID : i \in 1..Len(fc.Delete)})]

\* A variant that asks the quota service whether or not rules are added.
PersistQuotaAlways(rs, fc, next, fault, limitReached) ==
    LET upd == UpdateAlertRules(InsertAlertRules(rs, fc.New, next), fc.Update, 1)
        del == DeleteAlertRulesByUID(upd.rules, {fc.Delete[i].UID : i \in 1..Len(fc.Delete)})
    IN IF upd.err # "" THEN [err |-> upd.err, calls |-> <<>>, rules |-> rs]
       ELSE IF limitReached THEN [err |-> "ErrQuotaReached", calls |-> <<>>, rules |-> rs]
       ELSE [err |-> "", calls |-> <<>>, rules |-> del]

\* The body of the transaction of updateAlertRulesInGroup from the write of the
\* final changes on, run against the table rs: the calls made, the error
\* returned and the table the transaction would commit.
PersistChanges(rs, fc, next, fault, limitReached) ==
    LET writes == Len(fc.Update) > 0 \/ Len(fc.New) > 0
        ins == IF writes THEN InsertAlertRules(rs, fc.New, next) ELSE rs
        insCall == IF writes THEN <<StoreCall("InsertAlertRules", <<>>)>> ELSE <<>>
        upd == UpdateAlertRules(ins, fc.Update, 1)
        updCall == <<StoreCall("UpdateAlertRules",
                               [i \in 1..Len(fc.Update) |-> fc.Update[i].Existing.UID])>>
        delUIDs == [i \in 1..Len(fc.Delete) |-> fc.Delete[i].UID]
        afterUpd == IF writes THEN upd.rules ELSE rs
        del == IF Len(fc.Delete) > 0 THEN DeleteAlertRulesByUID(afterUpd, Range(delUIDs))
               ELSE afterUpd
        delCall == IF Len(fc.Delete) > 0
                   THEN <<StoreCall("DeleteAlertRulesByUID", delUIDs)>> ELSE <<>>
    IN IF writes /\ fault = "insert"
       THEN [err |-> "failed to add rules", calls |-> insCall, rules |-> rs]
       ELSE IF writes /\ fault = "update"
       THEN [err |-> "failed to update rules", calls |-> insCall \o updCall, rules |-> rs]
       ELSE IF writes /\ upd.err # ""
       THEN [err |-> upd.err, calls |-> insCall \o updCall, rules |-> rs]
       ELSE LET c1 == IF writes THEN insCall \o updCall ELSE <<>>
            IN IF Len(fc.Delete) > 0 /\ fault = "delete"
               THEN [err |-> "failed to delete rules", calls |-> c1 \o delCall, rules |-> rs]
               ELSE IF Len(fc.New) > 0 /\ fault = "quota"
               THEN [err |-> "failed to get alert rules quota", calls |-> c1 \o delCall, rules |-> rs]
               ELSE IF Len(fc.New) > 0 /\ limitReached
               THEN [err |-> "ErrQuotaReached", calls |-> c1 \o delCall, rules |-> rs]
               ELSE IF fault = "commit"
               THEN [err |-> "transaction failed", calls |-> c1 \o delCall, rules |-> rs]
               ELSE [err |-> "", calls |-> c1 \o delCall, rules |-> del]

\* A variant without the branch for the quota error.
ErrorStatusWithoutQuota(err) ==
    IF err = "ErrAlertRuleNotFound" THEN StatusNotFound
    ELSE IF err \in {"ErrAlertRuleFailedValidation", "errProvisionedResource"} THEN StatusBadRequest
    ELSE IF err = "ErrAuthorization" THEN StatusUnauthorized
    ELSE IF err = "ErrOptimisticLock" THEN StatusConflict
    ELSE StatusInternalServerError

\* The status updateAlertRulesInGroup answers an error of its transaction with.
ErrorStatus(err) ==
    IF err = "ErrAlertRuleNotFound" THEN StatusNotFound
    ELSE IF err \in {"ErrAlertRuleFailedValidation", "errProvisionedResource"} THEN StatusBadRequest
    ELSE IF err = "ErrQuotaReached" THEN StatusForbidden
    ELSE IF err = "ErrAuthorization" THEN StatusUnauthorized
    ELSE IF err = "ErrOptimisticLock" THEN StatusConflict
    ELSE StatusInternalServerError

\* A variant that tells the scheduler only of the rules whose fields changed.
UpdateNotificationsOfChanges(fc) ==
    LET changed == SelectSeq(fc.Update, LAMBDA u : u.Diff # {})
    IN [i \in 1..Len(changed) |->
           [Method |-> "UpdateAlertRule", Key |-> GetKey(changed[i].Existing),
            Version |-> changed[i].Existing.Version + 1]]
       \o [i \in 1..Len(fc.Delete) |->
           [Method |-> "DeleteAlertRule", Key |-> GetKey(fc.Delete[i]), Version |-> 0]]

\* A variant that announces the version the rule had before the write.
UpdateNotificationsStale(fc) ==
    [i \in 1..Len(fc.Update) |->
        [Method |-> "UpdateAlertRule", Key |-> GetKey(fc.Update[i].Existing),
         Version |-> fc.Update[i].Existing.Version]]
    \o [i \in 1..Len(fc.Delete) |->
        [Method |-> "DeleteAlertRule", Key |-> GetKey(fc.Delete[i]), Version |-> 0]]

\* The scheduler calls updateAlertRulesInGroup makes after its transaction, in order.
UpdateNotifications(fc) ==
    [i \in 1..Len(fc.Update) |->
        [Method |-> "UpdateAlertRule", Key |-> GetKey(fc.Update[i].Existing),
         Version |-> fc.Update[i].Existing.Version + 1]]
    \o [i \in 1..Len(fc.Delete) |->
        [Method |-> "DeleteAlertRule", Key |-> GetKey(fc.Delete[i]), Version |-> 0]]

\* The scheduler calls RouteDeleteAlertRules makes after its transaction, in order.
DeleteNotifications(deletableRules) ==
    [i \in 1..Len(deletableRules) |->
        [Method |-> "DeleteAlertRule", Key |-> [OrgID |-> OrgID, UID |-> deletableRules[i]],
         Version |-> 0]]

\* partition of RouteDeleteAlertRules: the rules that fulfil the predicate, in order.
RECURSIVE partition(_, _, _)
partition(alerts, keep, i) ==
    IF i > Len(alerts) THEN <<>>
    ELSE (IF alerts[i].UID \in keep THEN <<alerts[i]>> ELSE <<>>) \o partition(alerts, keep, i + 1)

\* A variant that lets the principal delete every rule of the selection.
CanDeleteAll(result, principal) == result

\* The rules RouteDeleteAlertRules lets the principal delete: first those whose data
\* source the principal may query, then of these the ones without a provenance.
CanDeleteAuthorized(result, principal) ==
    partition(result, {r.UID : r \in {x \in Range(result) :
                                        authorizeDatasourceAccessForRule(x, principal)}}, 1)

\* A variant that deletes the authorized rules whatever their provenance.
CanDeleteAnyProvenance(canDelete, provs) == canDelete

CanDeleteUnprovisioned(canDelete, provs) ==
    partition(canDelete, {r.UID : r \in {x \in Range(canDelete) :
                                        provs[x.UID] \in {NoRecord, ProvenanceNone}}}, 1)

\* ------------------------------------------------------------ read handlers

\* authorizeAccessToRuleGroup: access to the data source of every rule of the list.
authorizeAccessToRuleGroup(rules, principal) ==
    \A i \in 1..Len(rules) : authorizeDatasourceAccessForRule(rules[i], principal)

\* A variant that returns the rules in the order the store listed them.
toGettableUnsorted(groupKey, rules) == [key |-> groupKey, Rules |-> rules]

\* toGettableRuleGroupConfig: the group with its rules sorted by group index.
toGettableRuleGroupConfig(groupKey, rules) ==
    [key |-> groupKey, Rules |-> SortByGroupIndex(rules)]

\* The rows a ListAlertRulesQuery selects: by namespaces, by group unless "",
\* and by the dashboard the rule is linked to unless "".
QueryRows(rs, namespaceUIDs, ruleGroup, dashboards, dashboardUID) ==
    {r \in rs : /\ r.NamespaceUID \in namespaceUIDs
                /\ ruleGroup = "" \/ r.RuleGroup = ruleGroup
                /\ dashboardUID = "" \/ dashboards[r.UID] = dashboardUID}

\* The rules of one group in a query result, in the order of the result.
GroupRules(result, groupKey) == SelectSeq(result, LAMBDA r : GetGroupKey(r) = groupKey)

\* A variant that returns the group whether or not the principal has access.
RouteGetRulesGroupConfigOpen(result, groupKey, principal) ==
    [status |-> StatusAccepted, groups |-> {toGettableRuleGroupConfig(groupKey, result)}]

RouteGetRulesGroupConfig(result, groupKey, principal) ==
    IF ~authorizeAccessToRuleGroup(result, principal)
    THEN [status |-> StatusUnauthorized, groups |-> {}]
    ELSE [status |-> StatusAccepted, groups |-> {toGettableRuleGroupConfig(groupKey, result)}]

RouteGetNamespaceRulesConfig(result, principal) ==
    [status |-> StatusAccepted,
     groups |-> {toGettableRuleGroupConfig(k, GroupRules(result, k)) :
                   k \in {g \in {GetGroupKey(r) : r \in Range(result)} :
                            authorizeAccessToRuleGroup(GroupRules(result, g), principal)}}]

RouteGetRulesConfig(result, namespaceMap, principal) ==
    [status |-> StatusOK,
     groups |-> {toGettableRuleGroupConfig(k, GroupRules(result, k)) :
                   k \in {g \in {GetGroupKey(r) : r \in Range(result)} :
                            /\ g.NamespaceUID \in namespaceMap
                            /\ authorizeAccessToRuleGroup(GroupRules(result, g), principal)}}]

\* ------------------------------------------------------------------- state

VARIABLES
    rules,        \* the persisted alert rule table
    provenances,  \* the provenance table: UID -> provenance or NoRecord
    nextUID,      \* how many of FreshUIDs the store has handed out
    req,          \* per request: its position and its local variables
    scheduler,    \* the scheduler's view: per UID the last call it received
    calc          \* one application of calculateChanges and calculateAutomaticChanges,
                  \* of verifyProvisionedRulesNotAffected, or of a read handler

vars == <<rules, provenances, nextUID, req, scheduler, calc>>

\* r1 runs step by step; r2 is a second client whose transaction runs in between.
Requests == {"r1", "r2"}

NilChanges == [err |-> "nil", GroupKey |-> GroupA, AffectedGroups |-> <<>>,
               New |-> <<>>, Update |-> <<>>, Delete |-> <<>>]

IdleRequest ==
    [op |-> "none", pc |-> "Idle", before |-> {},
     groupKey |-> GroupA, submittedRules |-> <<>>,
     principal |-> [IsDisabled |-> TRUE, access |-> {}],
     groupChanges |-> NilChanges, finalChanges |-> NilChanges,
     namespace |-> "", group |-> "", provenances |-> [u \in UIDs |-> NoRecord],
     listed |-> <<>>, authorized |-> <<>>, deletableRules |-> <<>>,
     err |-> "", calls |-> <<>>, notified |-> <<>>, status |-> 0, message |-> ""]

NoGuard == [applied |-> FALSE, err |-> "", errorMsg |-> <<>>]

NoResponse == [status |-> 0, groups |-> {}]

NoRead == [applied |-> FALSE, route |-> "none", namespace |-> "", group |-> "",
           namespaceMap |-> {}, dashboardUID |-> "",
           dashboards |-> [u \in UIDs |-> ""],
           principal |-> [IsDisabled |-> TRUE, access |-> {}],
           listed |-> <<>>, response |-> NoResponse]

NoCalc == [key |-> GroupA, submittedRules |-> <<>>, changes |-> NilChanges,
           final |-> NilChanges, applied |-> FALSE, guard |-> NoGuard, read |-> NoRead]

InitialRules ==
    {AlertRule("u1", GroupA, 1, "d1", 1), AlertRule("u2", GroupA, 2, "d2", 1),
     AlertRule("u3", GroupB, 1, "d1", 1)}

Init ==
    /\ rules = InitialRules
    /\ provenances = [u \in UIDs |-> NoRecord]
    /\ nextUID = 0
    /\ req = [r \in Requests |-> IdleRequest]
    /\ scheduler = [u \in UIDs |-> [Method |-> "none", Version |-> 0]]
    /\ calc = NoCalc

\* ---------------------------------------------------------------- inputs

SubmittedRule(uid, data, key, idx) == AlertRule(uid, key, idx, data, 0)

\* What a submission may carry per rule: a UID with or without a query, or no
\* UID and a query.
RuleInputs ==
    {in \in [UID : SubmitUIDs \cup {NoUID}, Data : DataSources \cup {NoData}] :
        in.UID = NoUID => in.Data # NoData}

\* The rule lists validateRuleGroup hands over for a group key: the group index
\* of a rule is its position in the submission.
SubmissionsOf(inputs, key) ==
    UNION {{[i \in 1..n |-> SubmittedRule(s[i].UID, s[i].Data, key, i)] :
               s \in [1..n -> inputs]} : n \in 0..MaxSubmit}

Submissions(key) == SubmissionsOf(RuleInputs, key)

\* The submissions of request r1: complete rules, with the UID of a rule
\* persisted at the start, an unknown UID or none.
RequestSubmissions(key) ==
    SubmissionsOf({in \in RuleInputs : in.UID # "u4" /\ in.Data # NoData}, key)

\* The group updates of the second client.
RivalRequests ==
    {[key |-> GroupA, submittedRules |-> <<SubmittedRule("u2", NoData, GroupA, 1)>>],
     [key |-> GroupB, submittedRules |-> <<>>],
     [key |-> GroupC, submittedRules |-> <<SubmittedRule("u3", NoData, GroupC, 1)>>],
     [key |-> GroupA, submittedRules |-> <<SubmittedRule("u1", "d2", GroupA, 1),
                                           SubmittedRule("u2", NoData, GroupA, 2)>>]}

\* Fresh UIDs already promised to the request in flight.
PendingNew == IF req["r1"].pc \in {"Idle", "Done", "Committed"} THEN 0
              ELSE Len(req["r1"].groupChanges.New)

\* -------------------------------------------------- updateAlertRulesInGroup

Fail(r, err, status, message) ==
    req' = [req EXCEPT ![r].pc = "Done", ![r].err = err, ![r].status = status,
                       ![r].message = message]

\* The transaction starts and calculateChanges runs: an error ends the request,
\* an empty delta commits at once, anything else goes on to authorization.
Calculate(r) ==
    /\ req[r].pc = "Idle"
    /\ \E key \in GroupKeys :
         \E submittedRules \in RequestSubmissions(key) :
           \E delOrder \in Orderings(Unclaimed(rules, key, submittedRules)) :
             LET ch == calculateChanges(rules, key, submittedRules, delOrder)
                 started == [req[r] EXCEPT !.op = "update", !.before = rules,
                                           !.groupKey = key,
                                           !.submittedRules = submittedRules]
             IN /\ ch.err = "" => nextUID + Len(ch.New) <= Len(FreshUIDs)
                /\ req' = [req EXCEPT ![r] =
                     IF ch.err # ""
                     THEN [started EXCEPT !.pc = "Done", !.err = ch.err,
                                          !.status = ErrorStatus(ch.err),
                                          !.message = "failed to update rule group"]
                     ELSE IF isEmpty(ch)
                     THEN [started EXCEPT !.pc = "Committed", !.groupChanges = ch,
                                          !.finalChanges = ch]
                     ELSE [started EXCEPT !.pc = "Authorizing", !.groupChanges = ch]]
    /\ UNCHANGED <<rules, provenances, nextUID, scheduler, calc>>

\* ListAlertRules or GetAlertRulesGroupByRuleUID fails inside calculateChanges.
CalculateFailed(r) ==
    /\ req[r].pc = "Idle"
    /\ req' = [req EXCEPT ![r].op = "update", ![r].pc = "Done", ![r].before = rules,
                          ![r].err = "failed to query database",
                          ![r].status = ErrorStatus("failed to query database"),
                          ![r].message = "failed to update rule group"]
    /\ UNCHANGED <<rules, provenances, nextUID, scheduler, calc>>

\* authorizeRuleChanges for the request's principal, unless access control is disabled.
Authorize(r) ==
    /\ req[r].pc = "Authorizing"
    /\ \E principal \in Principals :
         LET err == IF principal.IsDisabled THEN ""
                    ELSE authorizeRuleChanges(req[r].groupChanges, principal)
         IN IF err # "" THEN Fail(r, err, ErrorStatus(err), "")
            ELSE req' = [req EXCEPT ![r].pc = "GuardingProvenance"]
    /\ UNCHANGED <<rules, provenances, nextUID, scheduler, calc>>

\* A variant that goes on to the augmenter without asking the guard.
GuardSkipped(r) ==
    /\ req[r].pc = "GuardingProvenance"
    /\ req' = [req EXCEPT ![r].pc = "Augmenting"]
    /\ UNCHANGED <<rules, provenances, nextUID, scheduler, calc>>

\* verifyProvisionedRulesNotAffected on the calculated changes.
GuardProvenance(r) ==
    /\ req[r].pc = "GuardingProvenance"
    /\ LET err == verifyProvisionedRulesNotAffected(provenances, req[r].groupChanges)
       IN IF err # "" THEN Fail(r, err, ErrorStatus(err), "failed to update rule group")
          ELSE req' = [req EXCEPT ![r].pc = "Augmenting"]
    /\ UNCHANGED <<rules, provenances, nextUID, scheduler, calc>>

Augment(r) ==
    /\ req[r].pc = "Augmenting"
    /\ \E groupOrder \in Orderings(DOMAIN req[r].groupChanges.AffectedGroups) :
         req' = [req EXCEPT ![r].pc = "Persisting",
                            ![r].finalChanges =
                                calculateAutomaticChanges(req[r].groupChanges, groupOrder)]
    /\ UNCHANGED <<rules, provenances, nextUID, scheduler, calc>>

\* The writes, the quota check and the end of the transaction: it commits all
\* of its writes or, on any error, none.
Persist(r) ==
    /\ req[r].pc = "Persisting"
    /\ \E fault \in Faults, limitReached \in BOOLEAN :
         LET tx == PersistChanges(rules, req[r].finalChanges, nextUID, fault, limitReached)
         IN /\ rules' = tx.rules
            /\ nextUID' = IF tx.err = "" THEN nextUID + Len(req[r].finalChanges.New) ELSE nextUID
            /\ req' = [req EXCEPT ![r] =
                 IF tx.err # ""
                 THEN [@ EXCEPT !.pc = "Done", !.err = tx.err, !.calls = tx.calls,
                                !.status = ErrorStatus(tx.err),
                                !.message = IF ErrorStatus(tx.err) = StatusInternalServerError
                                            THEN "failed to update rule group" ELSE ""]
                 ELSE [@ EXCEPT !.pc = "Committed", !.calls = tx.calls]]
    /\ UNCHANGED <<provenances, scheduler, calc>>

\* The whole transaction of a group update of the second client, between two
\* steps of r1: calculate, guard, augment, write, commit.
RivalTransaction ==
    /\ req["r2"].pc = "Idle"
    /\ req["r1"].pc \in {"Persisting", "Listing", "Deleting"}
    /\ \E in \in RivalRequests :
         \E delOrder \in Orderings(Unclaimed(rules, in.key, in.submittedRules)) :
           LET ch == calculateChanges(rules, in.key, in.submittedRules, delOrder)
           IN /\ ch.err = ""
              /\ ~isEmpty(ch)
              /\ verifyProvisionedRulesNotAffected(provenances, ch) = ""
              /\ \E groupOrder \in Orderings(DOMAIN ch.AffectedGroups) :
                   LET fc == calculateAutomaticChanges(ch, groupOrder)
                       tx == PersistChanges(rules, fc, nextUID, "none", FALSE)
                   IN /\ tx.err = ""
                      /\ rules' = tx.rules
                      /\ req' = [req EXCEPT !["r2"] =
                                    [@ EXCEPT !.op = "update", !.pc = "Committed",
                                              !.before = rules, !.groupKey = in.key,
                                              !.submittedRules = in.submittedRules,
                                              !.groupChanges = ch, !.finalChanges = fc,
                                              !.calls = tx.calls]]
    /\ UNCHANGED <<provenances, nextUID, scheduler, calc>>

\* --------------------------------------------------- after the transaction

Notifications(q) ==
    IF q.op = "update" THEN UpdateNotifications(q.finalChanges)
    ELSE DeleteNotifications(q.deletableRules)

\* The next scheduler call of the loops that follow a committed transaction.
Notify(r) ==
    /\ req[r].pc = "Committed"
    /\ Len(req[r].notified) < Len(Notifications(req[r]))
    /\ LET n == Notifications(req[r])[Len(req[r].notified) + 1]
       IN /\ req' = [req EXCEPT ![r].notified = Append(@, n)]
          /\ scheduler' = [scheduler EXCEPT ![n.Key.UID] =
                              [Method |-> n.Method, Version |-> n.Version]]
    /\ UNCHANGED <<rules, provenances, nextUID, calc>>

SuccessMessage(q) ==
    IF q.op = "delete" THEN "rules deleted"
    ELSE IF isEmpty(q.finalChanges) THEN "no changes detected in the rule group"
    ELSE "rule group updated successfully"

Respond(r) ==
    /\ req[r].pc = "Committed"
    /\ Len(req[r].notified) = Len(Notifications(req[r]))
    /\ req' = [req EXCEPT ![r].pc = "Done", ![r].status = StatusAccepted,
                          ![r].message = SuccessMessage(req[r])]
    /\ UNCHANGED <<rules, provenances, nextUID, scheduler, calc>>

\* ----------------------------------------------------- RouteDeleteAlertRules

\* A variant of the query that leaves the group out.
DeleteQueryWholeNamespace(namespace, group) ==
    [OrgID |-> OrgID, NamespaceUID |-> namespace, RuleGroup |-> ""]

\* The ListAlertRulesQuery of the handler: the user's org, the namespace, and
\* the group when one is given.
DeleteQuery(namespace, group) ==
    [OrgID |-> OrgID, NamespaceUID |-> namespace,
     RuleGroup |-> IF group # "" THEN group ELSE ""]

\* The request arrives and GetProvenances is read, before the transaction.
DeleteStart(r) ==
    /\ req[r].pc = "Idle"
    /\ \E ns \in {k.NamespaceUID : k \in GroupKeys},
          grp \in {""} \cup {k.RuleGroup : k \in GroupKeys} :
         req' = [req EXCEPT ![r].op = "delete", ![r].pc = "Listing", ![r].before = rules,
                            ![r].namespace = ns, ![r].group = grp,
                            ![r].provenances = provenances]
    /\ UNCHANGED <<rules, provenances, nextUID, scheduler, calc>>

\* A variant without the early return for an empty listing.
DeleteListWithoutEmptyReturn(r) ==
    /\ req[r].pc = "Listing"
    /\ \E principal \in Principals :
         LET q == DeleteQuery(req[r].namespace, req[r].group)
             result == ListNamespaceRules(rules, q.NamespaceUID, q.RuleGroup)
             authorized == CanDeleteAuthorized(result, principal)
             canDelete == CanDeleteUnprovisioned(authorized, req[r].provenances)
             seen == [req EXCEPT ![r].principal = principal, ![r].listed = result,
                                 ![r].authorized = authorized]
         IN IF Len(authorized) = 0
            THEN req' = [seen EXCEPT ![r].pc = "Done", ![r].err = "ErrAuthorization",
                                     ![r].status = StatusUnauthorized]
            ELSE IF Len(canDelete) = 0
            THEN req' = [seen EXCEPT ![r].pc = "Done",
                                     ![r].err = "all rules have been provisioned",
                                     ![r].status = StatusInternalServerError,
                                     ![r].message = "failed to delete rule group"]
            ELSE req' = [seen EXCEPT ![r].pc = "Deleting",
                            ![r].deletableRules = [i \in 1..Len(canDelete) |-> canDelete[i].UID]]
    /\ UNCHANGED <<rules, provenances, nextUID, scheduler, calc>>

\* Inside the transaction: ListAlertRules and the two partitions.
DeleteList(r) ==
    /\ req[r].pc = "Listing"
    /\ \E principal \in Principals :
         LET q == DeleteQuery(req[r].namespace, req[r].group)
             result == ListNamespaceRules(rules, q.NamespaceUID, q.RuleGroup)
             authorized == CanDeleteAuthorized(result, principal)
             canDelete == CanDeleteUnprovisioned(authorized, req[r].provenances)
             seen == [req EXCEPT ![r].principal = principal, ![r].listed = result,
                                 ![r].authorized = authorized]
         IN IF Len(result) = 0 THEN req' = [seen EXCEPT ![r].pc = "Committed"]
            ELSE IF Len(authorized) = 0
            THEN req' = [seen EXCEPT ![r].pc = "Done", ![r].err = "ErrAuthorization",
                                     ![r].status = StatusUnauthorized]
            ELSE IF Len(canDelete) = 0
            THEN req' = [seen EXCEPT ![r].pc = "Done",
                                     ![r].err = "all rules have been provisioned",
                                     ![r].status = StatusInternalServerError,
                                     ![r].message = "failed to delete rule group"]
            ELSE req' = [seen EXCEPT ![r].pc = "Deleting",
                            ![r].deletableRules = [i \in 1..Len(canDelete) |-> canDelete[i].UID]]
    /\ UNCHANGED <<rules, provenances, nextUID, scheduler, calc>>

\* DeleteAlertRulesByUID and the end of the transaction.
DeleteCommit(r) ==
    /\ req[r].pc = "Deleting"
    /\ \E fault \in {"none", "delete", "commit"} :
         LET call == <<StoreCall("DeleteAlertRulesByUID", req[r].deletableRules)>>
         IN IF fault # "none"
            THEN /\ req' = [req EXCEPT ![r].pc = "Done", ![r].calls = call,
                                       ![r].err = "failed to delete rules",
                                       ![r].status = StatusInternalServerError,
                                       ![r].message = "failed to delete rule group"]
                 /\ rules' = rules
            ELSE /\ req' = [req EXCEPT ![r].pc = "Committed", ![r].calls = call]
                 /\ rules' = DeleteAlertRulesByUID(rules, Range(req[r].deletableRules))
    /\ UNCHANGED <<provenances, nextUID, scheduler, calc>>

\* ----------------------------------------------------------- provisioning

\* SetProvenance of the provisioning service for a persisted rule, before the
\* request arrives.
SetProvenance ==
    /\ req["r1"].pc = "Idle"
    /\ \A u \in UIDs : provenances[u] = NoRecord
    /\ \E rule \in rules :
         \E p \in {ProvenanceNone, IF rule.UID = "u3" THEN ProvenanceFile ELSE ProvenanceAPI} :
           provenances' = [provenances EXCEPT ![rule.UID] = p]
    /\ UNCHANGED <<rules, nextUID, req, scheduler, calc>>

\* ------------------------------------------------------------ specification

Next ==
    \/ Calculate("r1")
    \/ CalculateFailed("r1")
    \/ Authorize("r1")
    \/ GuardProvenance("r1")
    \/ Augment("r1")
    \/ Persist("r1")
    \/ RivalTransaction
    \/ DeleteStart("r1")
    \/ DeleteList("r1")
    \/ DeleteCommit("r1")
    \/ \E r \in Requests : Notify(r)
    \/ \E r \in Requests : Respond(r)
    \/ SetProvenance

Spec == Init /\ [][Next]_vars

\* ------------------------------------- the calculation as a pure function

\* Rule tables the requests can leave behind: the initial groups, a group of
\* three, and a table with permuted and sparse group indices.
CalcStores ==
    {InitialRules,
     {AlertRule("u1", GroupA, 1, "d1", 1), AlertRule("u2", GroupA, 2, "d2", 2),
      AlertRule("u3", GroupA, 3, "d1", 1), AlertRule("u4", GroupB, 1, "d1", 3)},
     {AlertRule("u1", GroupA, 4, "d1", 2), AlertRule("u2", GroupA, 1, "d2", 1),
      AlertRule("u3", GroupA, 2, "d1", 1), AlertRule("u4", GroupB, 2, "d2", 1)}}

InitCalc ==
    /\ rules \in CalcStores
    /\ provenances = [u \in UIDs |-> NoRecord]
    /\ nextUID = 0
    /\ req = [r \in Requests |-> IdleRequest]
    /\ scheduler = [u \in UIDs |-> [Method |-> "none", Version |-> 0]]
    /\ \E key \in GroupKeys : \E submittedRules \in Submissions(key) :
         calc = [NoCalc EXCEPT !.key = key, !.submittedRules = submittedRules]

\* calculateChanges on the table, then calculateAutomaticChanges on its result.
ApplyCalc ==
    /\ ~calc.applied
    /\ \E delOrder \in Orderings(Unclaimed(rules, calc.key, calc.submittedRules)) :
         LET ch == calculateChanges(rules, calc.key, calc.submittedRules, delOrder)
         IN \E groupOrder \in Orderings(DOMAIN ch.AffectedGroups) :
              calc' = [calc EXCEPT !.applied = TRUE, !.changes = ch,
                          !.final = IF ch.err = "" THEN calculateAutomaticChanges(ch, groupOrder)
                                    ELSE NilChanges]
    /\ UNCHANGED <<rules, provenances, nextUID, req, scheduler>>

NextCalc == ApplyCalc

SpecCalc == InitCalc /\ [][NextCalc]_vars

\* --------------------------------------- the calculation on complete rows

\* A rule with its row ID and its time of last update.
FullRule(uid, key, idx, data, ver, id, updated) ==
    [UID |-> uid, OrgID |-> key.OrgID, NamespaceUID |-> key.NamespaceUID,
     RuleGroup |-> key.RuleGroup, RuleGroupIndex |-> idx, Data |-> data, Version |-> ver,
     ID |-> id, Updated |-> updated]

DiffStore ==
    {FullRule("u1", GroupA, 1, "d1", 1, RuleID("u1"), 0),
     FullRule("u2", GroupA, 2, "d2", 2, RuleID("u2"), 0),
     FullRule("u3", GroupB, 1, "d1", 1, RuleID("u3"), 0)}

\* What a client may send for a rule: any version, the row ID or none, an
\* older or a newer time of update.
DiffInputs ==
    [UID : {"u1", "u2", "u3"}, Data : DataSources \cup {NoData}, Version : 0..2,
     HasID : BOOLEAN, Updated : 0..1]

\* Submissions of one or two rules with distinct UIDs; the group index of a
\* rule is its position.
DiffSubmissions(key) ==
    UNION {{[i \in 1..n |-> FullRule(s[i].UID, key, i, s[i].Data, s[i].Version,
                                      IF s[i].HasID THEN RuleID(s[i].UID) ELSE 0,
                                      s[i].Updated)] :
               s \in {t \in [1..n -> DiffInputs] :
                         \A i, j \in 1..n : i # j => t[i].UID # t[j].UID}} : n \in 1..2}

InitDiff ==
    /\ rules = DiffStore
    /\ provenances = [u \in UIDs |-> NoRecord]
    /\ nextUID = 0
    /\ req = [r \in Requests |-> IdleRequest]
    /\ scheduler = [u \in UIDs |-> [Method |-> "none", Version |-> 0]]
    /\ \E key \in {GroupA, GroupB} : \E submittedRules \in DiffSubmissions(key) :
         calc = [NoCalc EXCEPT !.key = key, !.submittedRules = submittedRules]

NextDiff == ApplyCalc

SpecDiff == InitDiff /\ [][NextDiff]_vars

\* ------------------------------------ the provenance guard as a pure function

\* Provenance tables over the rules of CalcStores.
GuardProvenances ==
    {p \in [UIDs -> {NoRecord, ProvenanceNone, ProvenanceAPI, ProvenanceFile}] :
        /\ \A u \in {"n1", "n2"} : p[u] = NoRecord
        /\ \A u \in {"u1", "u2", "u3"} : p[u] # ProvenanceFile}

\* The deltas the guard is given: those of submissions that name rules by UID.
InitGuard ==
    /\ rules \in CalcStores
    /\ provenances \in GuardProvenances
    /\ nextUID = 0
    /\ req = [r \in Requests |-> IdleRequest]
    /\ scheduler = [u \in UIDs |-> [Method |-> "none", Version |-> 0]]
    /\ \E key \in GroupKeys :
         \E submittedRules \in SubmissionsOf({in \in RuleInputs : in.Data = NoData}, key) :
           calc = [NoCalc EXCEPT !.key = key, !.submittedRules = submittedRules]

\* verifyProvisionedRulesNotAffected on the delta of calculateChanges.
ApplyGuard ==
    /\ calc.applied /\ calc.changes.err = ""
    /\ ~calc.guard.applied
    /\ \E groupOrder \in Orderings(DOMAIN calc.changes.AffectedGroups) :
         calc' = [calc EXCEPT !.guard =
                     [applied |-> TRUE,
                      err |-> verifyProvisionedRulesNotAffected(provenances, calc.changes),
                      errorMsg |-> errorMsg(provenances, calc.changes, groupOrder, 1)]]
    /\ UNCHANGED <<rules, provenances, nextUID, req, scheduler>>

NextGuard == ApplyCalc \/ ApplyGuard

SpecGuard == InitGuard /\ [][NextGuard]_vars

\* ------------------------------------------- the read handlers on a table

Namespaces == {k.NamespaceUID : k \in GroupKeys}

\* The read requests: one group, one namespace, or all visible namespaces,
\* the last with an optional dashboard filter over the rules' dashboard links.
ReadRequests ==
    {[NoRead EXCEPT !.route = "group", !.namespace = k.NamespaceUID, !.group = k.RuleGroup] :
        k \in GroupKeys}
    \cup {[NoRead EXCEPT !.route = "namespace", !.namespace = ns] : ns \in Namespaces}
    \cup {[NoRead EXCEPT !.route = "all", !.namespaceMap = m] : m \in SUBSET Namespaces}
    \cup {[NoRead EXCEPT !.route = "all", !.namespaceMap = m, !.dashboardUID = "db1",
                         !.dashboards = d] :
            m \in SUBSET Namespaces,
            d \in {f \in [UIDs -> {"", "db1"}] : \A u \in {"n1", "n2"} : f[u] = ""}}

InitRead ==
    /\ rules \in CalcStores
    /\ provenances = [u \in UIDs |-> NoRecord]
    /\ nextUID = 0
    /\ req = [r \in Requests |-> IdleRequest]
    /\ scheduler = [u \in UIDs |-> [Method |-> "none", Version |-> 0]]
    /\ \E rd \in ReadRequests, principal \in Principals :
         calc = [NoCalc EXCEPT !.read = [rd EXCEPT !.principal = principal]]

\* The handler of the request: ListAlertRules, in whatever order the store
\* returns the rows, then the answer of the route.
ApplyRead ==
    /\ ~calc.read.applied
    /\ LET rd == calc.read
           rows == IF rd.route = "all"
                   THEN QueryRows(rules, rd.namespaceMap, "", rd.dashboards, rd.dashboardUID)
                   ELSE QueryRows(rules, {rd.namespace}, rd.group, rd.dashboards, "")
       IN \E result \in Orderings(rows) :
            calc' = [calc EXCEPT !.read =
                [rd EXCEPT !.applied = TRUE, !.listed = result,
                    !.response =
                        IF rd.route = "group"
                        THEN RouteGetRulesGroupConfig(
                                 result, AlertRuleGroupKey(rd.namespace, rd.group), rd.principal)
                        ELSE IF rd.route = "namespace"
                        THEN RouteGetNamespaceRulesConfig(result, rd.principal)
                        ELSE IF rd.namespaceMap = {} THEN [status |-> StatusOK, groups |-> {}]
                        ELSE RouteGetRulesConfig(result, rd.namespaceMap, rd.principal)]]
    /\ UNCHANGED <<rules, provenances, nextUID, req, scheduler>>

NextRead == ApplyRead

SpecRead == InitRead /\ [][NextRead]_vars

\* ------------------------------------------------ the bulk delete on its own

OtherOrg == "org2"

\* Rule tables with a rule in each of the three groups and a rule of another
\* org that carries the namespace and group of GroupA.
DeleteStores ==
    {{AlertRule("u1", GroupA, 1, "d1", 1), AlertRule("u2", GroupB, 1, "d2", 1),
      AlertRule("u3", GroupC, 1, "d1", 1),
      [AlertRule("u4", GroupA, 1, "d1", 1) EXCEPT !.OrgID = OtherOrg]},
     {AlertRule("u1", GroupA, 1, "d1", 1), AlertRule("u2", GroupA, 2, "d1", 1),
      AlertRule("u3", GroupB, 1, "d2", 1),
      [AlertRule("u4", GroupA, 2, "d2", 1) EXCEPT !.OrgID = OtherOrg]},
     {AlertRule("u1", GroupC, 1, "d1", 1), AlertRule("u2", GroupC, 2, "d2", 1),
      AlertRule("u3", GroupB, 1, "d1", 1),
      [AlertRule("u4", GroupC, 1, "d1", 1) EXCEPT !.OrgID = OtherOrg]}}

DeleteProvenances ==
    {[u \in UIDs |-> NoRecord],
     [u \in UIDs |-> IF u = "u1" THEN ProvenanceAPI ELSE NoRecord],
     [u \in UIDs |-> IF u = "u3" THEN ProvenanceFile ELSE ProvenanceNone]}

InitDelete ==
    /\ rules \in DeleteStores
    /\ provenances \in DeleteProvenances
    /\ nextUID = 0
    /\ req = [r \in Requests |-> IdleRequest]
    /\ scheduler = [u \in UIDs |-> [Method |-> "none", Version |-> 0]]
    /\ calc = NoCalc

\* SetProvenance of the provisioning service for a persisted rule while the
\* delete request is between its read of the provenances and its commit.
SetProvenanceDuringDelete ==
    /\ req["r1"].op = "delete"
    /\ req["r1"].pc \in {"Listing", "Deleting"}
    /\ \E rule \in rules :
         /\ provenances[rule.UID] \in {NoRecord, ProvenanceNone}
         /\ provenances' = [provenances EXCEPT ![rule.UID] = ProvenanceAPI]
    /\ UNCHANGED <<rules, nextUID, req, scheduler, calc>>

NextDelete ==
    \/ DeleteStart("r1")
    \/ DeleteList("r1")
    \/ DeleteCommit("r1")
    \/ Notify("r1")
    \/ Respond("r1")
    \/ SetProvenanceDuringDelete

SpecDelete == InitDelete /\ [][NextDelete]_vars

\* ------------------------------------------------------------ observations

Finished(q) == q.pc \in {"Committed", "Done"}
Failed(q) == q.pc = "Done" /\ q.status # StatusAccepted

\* The rule table as the other client alone leaves it: the table the request
\* started from, with the second client's transaction applied once it has run.
WithoutRequest(r) ==
    IF r = "r2" \/ req["r2"].pc = "Idle" THEN req[r].before
    ELSE PersistChanges(req[r].before, req["r2"].finalChanges, 0, "none", FALSE).rules

\* A store call of the request's own transaction failed for a reason of the store.
StoreFault(q) ==
    q.err \in {"failed to query database", "failed to add rules", "failed to update rules",
               "failed to delete rules", "failed to get alert rules quota", "transaction failed"}

Persisted(rs, uid) == CHOOSE x \in rs : x.UID = uid
IsPersisted(rs, uid) == \E x \in rs : x.UID = uid

\* The submission repeats the persisted group rule for rule, up to Version.
IdenticalToPersisted(q) ==
    /\ Len(q.submittedRules) = Cardinality({x \in q.before : GetGroupKey(x) = q.groupKey})
    /\ \A i \in 1..Len(q.submittedRules) :
         /\ IsPersisted(q.before, q.submittedRules[i].UID)
         /\ [q.submittedRules[i] EXCEPT !.Version = 0]
              = [Persisted(q.before, q.submittedRules[i].UID) EXCEPT !.Version = 0]

\* ------------------------------------------------------------------ claims

\* C1: a group update whose submission is identical to the persisted group, up
\* to Version, computes an empty delta, makes no InsertAlertRules,
\* UpdateAlertRules or DeleteAlertRulesByUID call, sends the scheduler nothing
\* and ends as 202 with the message "no changes detected in the rule group".
C1_Idempotence ==
    \A r \in Requests :
        (req[r].op = "update" /\ req[r].pc # "Idle" /\ req[r].err # "failed to query database"
         /\ IdenticalToPersisted(req[r]))
        => /\ Finished(req[r])
           /\ isEmpty(req[r].finalChanges)
           /\ req[r].calls = <<>>
           /\ req[r].notified = <<>>
           /\ rules = WithoutRequest(r)
           /\ req[r].pc = "Done" => /\ req[r].status = StatusAccepted
                                    /\ req[r].message = "no changes detected in the rule group"

C1_Witness ==
    /\ req["r1"].op = "update" /\ req["r1"].pc = "Done"
    /\ Len(req["r1"].submittedRules) = 2
    /\ IdenticalToPersisted(req["r1"])
    /\ req["r1"].status = StatusAccepted

\* C2: a request that ends in an error leaves the rule table as it would be
\* without the request and has sent the scheduler nothing.
C2_AtomicAbort ==
    \A r \in Requests :
        (req[r].op = "update" /\ Failed(req[r]))
                       => /\ rules = WithoutRequest(r)
                          /\ req[r].notified = <<>>
                          /\ \A u \in UIDs : req["r2"].pc = "Idle" =>
                                              scheduler[u].Method = "none"

C2_Witness ==
    /\ req["r1"].op = "update" /\ Failed(req["r1"])
    /\ req["r1"].err = "ErrQuotaReached"
    /\ Len(req["r1"].finalChanges.Update) > 0
    /\ Len(req["r1"].finalChanges.Delete) > 0

\* Some rule of the final Update list is persisted, when the request comes to
\* write, with another version than the one the delta was calculated from.
VersionChanged(r) ==
    \E i \in 1..Len(req[r].finalChanges.Update) :
        LET e == req[r].finalChanges.Update[i].Existing
        IN /\ IsPersisted(req[r].before, e.UID)
           /\ Persisted(req[r].before, e.UID).Version = e.Version
           /\ IsPersisted(WithoutRequest(r), e.UID)
           /\ Persisted(WithoutRequest(r), e.UID).Version # e.Version

\* C3: when the persisted version of a rule of the final Update list changed
\* between the calculation and the commit, and the store calls themselves do
\* not break, the group update ends as 409 and writes no row.
C3_OptimisticLock ==
    \A r \in Requests :
        (req[r].op = "update" /\ Finished(req[r]) /\ VersionChanged(r) /\ ~StoreFault(req[r]))
        => /\ req[r].pc = "Done"
           /\ req[r].err = "ErrOptimisticLock"
           /\ req[r].status = StatusConflict
           /\ rules = WithoutRequest(r)
           /\ req[r].notified = <<>>

C3_Witness ==
    /\ req["r1"].op = "update" /\ req["r1"].pc = "Done" /\ VersionChanged("r1")
    /\ req["r1"].status = StatusConflict
    /\ Len(req["r1"].finalChanges.New) > 0

\* Some rule listed in the AffectedGroups of the request's delta has a
\* provenance other than none.
ProvisionedAffected(q) ==
    \E g \in DOMAIN q.groupChanges.AffectedGroups :
        \E x \in Range(q.groupChanges.AffectedGroups[g]) :
            provenances[x.UID] \in {ProvenanceAPI, ProvenanceFile}

Vetoed(r) ==
    /\ req[r].pc = "Done"
    /\ req[r].err = "errProvisionedResource"
    /\ req[r].status = StatusBadRequest
    /\ req[r].calls = <<>>
    /\ req[r].notified = <<>>
    /\ rules = WithoutRequest(r)

\* C4 (amended): whenever the delta of a group update is not empty, its
\* authorization has passed and a rule listed in an AffectedGroups entry has a
\* provenance other than none, the request fails as 400 with the
\* provisioned-resource error and writes nothing, also when the provisioned
\* rule is none of the rules the delta adds, updates or deletes.
C4_ProvenanceVeto ==
    \A r \in Requests :
        (/\ req[r].op = "update"
         /\ req[r].pc \notin {"Idle", "Authorizing", "GuardingProvenance"}
         /\ ~isEmpty(req[r].groupChanges)
         /\ req[r].err # "ErrAuthorization"
         /\ ProvisionedAffected(req[r]))
        => Vetoed(r)

C4_Witness ==
    /\ Vetoed("r1")
    /\ ProvisionedAffected(req["r1"])
    /\ \A u \in UIDs : provenances[u] \in {ProvenanceAPI, ProvenanceFile} =>
         /\ \A i \in 1..Len(req["r1"].groupChanges.Update) :
                req["r1"].groupChanges.Update[i].Existing.UID # u
         /\ \A i \in 1..Len(req["r1"].groupChanges.Delete) :
                req["r1"].groupChanges.Delete[i].UID # u

\* C4 as stated: every group update whose AffectedGroups list a provisioned
\* rule fails with the provisioned-resource error.
C4_Original ==
    \A r \in Requests :
        (req[r].op = "update" /\ Finished(req[r]) /\ ProvisionedAffected(req[r]))
        => Vetoed(r)

\* A submitted rule carries a UID that no persisted rule has.
UnknownUID(q) ==
    \E i \in 1..Len(q.submittedRules) :
        q.submittedRules[i].UID # NoUID /\ ~IsPersisted(q.before, q.submittedRules[i].UID)

\* C6: a group update with a submitted rule whose non-empty UID is persisted
\* nowhere ends as 404 with ErrAlertRuleNotFound, makes no store write and
\* sends the scheduler nothing, whatever else is submitted.
C6_UnknownUID ==
    \A r \in Requests :
        (req[r].op = "update" /\ req[r].pc # "Idle" /\ UnknownUID(req[r]))
        => /\ req[r].pc = "Done"
           /\ req[r].err = "ErrAlertRuleNotFound"
           /\ req[r].status = StatusNotFound
           /\ req[r].calls = <<>>
           /\ req[r].notified = <<>>
           /\ rules = WithoutRequest(r)

C6_Witness ==
    /\ req["r1"].op = "update" /\ req["r1"].pc = "Done" /\ UnknownUID(req["r1"])
    /\ req["r1"].status = StatusNotFound
    /\ \E i \in 1..Len(req["r1"].submittedRules) : req["r1"].submittedRules[i].UID = NoUID

\* The selected rules the principal has data-source access to.
AuthorizedSelection(q) == {x \in Range(q.listed) : x.Data \in q.principal.access}

\* The principal is authorized for a non-empty strict subset of the selection.
PartlyAuthorized(q) ==
    /\ q.op = "delete" /\ q.pc = "Done" /\ ~StoreFault(q)
    /\ AuthorizedSelection(q) # {}
    /\ AuthorizedSelection(q) # Range(q.listed)

\* Exactly the rules of S went into one DeleteAlertRulesByUID call and into the
\* scheduler's DeleteAlertRule calls, and the request ended as 202.
DeletedExactly(r, S) ==
    /\ req[r].status = StatusAccepted
    /\ Len(req[r].calls) = 1
    /\ req[r].calls[1].name = "DeleteAlertRulesByUID"
    /\ Len(req[r].calls[1].uids) = Cardinality(S)
    /\ Range(req[r].calls[1].uids) = {x.UID : x \in S}
    /\ Len(req[r].notified) = Cardinality(S)
    /\ {n.Key.UID : n \in Range(req[r].notified)} = {x.UID : x \in S}
    /\ \A n \in Range(req[r].notified) : n.Method = "DeleteAlertRule"
    /\ \A x \in S : ~IsPersisted(rules, x.UID)

Calculated == calc.applied /\ calc.changes.err = ""

SubmittedUIDs == {calc.submittedRules[i].UID : i \in 1..Len(calc.submittedRules)}
TargetRules == {x \in rules : GetGroupKey(x) = calc.key}

\* C5: the Delete list of calculateChanges holds exactly the rules persisted
\* under the target group key whose UID no submitted rule carries, each once,
\* and no rule of another group.
C5_DeleteSet ==
    Calculated =>
        /\ Range(calc.changes.Delete) = {x \in TargetRules : x.UID \notin SubmittedUIDs}
        /\ Len(calc.changes.Delete) = Cardinality(Range(calc.changes.Delete))
        /\ \A x \in Range(calc.changes.Delete) : GetGroupKey(x) = calc.key

C5_Witness ==
    /\ Calculated
    /\ Len(calc.changes.Delete) = 2
    /\ Len(calc.submittedRules) = 2
    /\ \E x \in TargetRules : x.UID \in SubmittedUIDs

\* The submitted rules persisted in another group than the target.
Moved == {x \in rules : x.UID \in SubmittedUIDs /\ GetGroupKey(x) # calc.key}

FullGroup(g) ==
    /\ g \in DOMAIN calc.changes.AffectedGroups
    /\ calc.changes.AffectedGroups[g] = ListAlertRules(rules, g)

InUpdateNotNew(u) ==
    /\ \E i \in 1..Len(calc.changes.Update) : calc.changes.Update[i].Existing.UID = u
    /\ \A i \in 1..Len(calc.changes.New) : calc.changes.New[i].UID # u

\* C7 (amended): when a rule with UID u persisted in group A is submitted to
\* the target group B # A, the delta of calculateChanges has A as a key of
\* AffectedGroups, mapped to the full persisted rule list of A, has B as a key,
\* mapped to the full persisted rule list of B, exactly when B has persisted
\* rules, and u is in Update and not in New.
C7_CrossGroupMove ==
    Calculated =>
        \A x \in Moved :
            /\ FullGroup(GetGroupKey(x))
            /\ IF TargetRules # {} THEN FullGroup(calc.key)
               ELSE calc.key \notin DOMAIN calc.changes.AffectedGroups
            /\ InUpdateNotNew(x.UID)

C7_Witness ==
    /\ Calculated
    /\ \E x \in Moved : Len(calc.changes.AffectedGroups[GetGroupKey(x)]) = 3
    /\ TargetRules # {}
    /\ FullGroup(calc.key)

\* C7 as stated: the target group is a key of AffectedGroups in every move.
C7_Original ==
    Calculated =>
        \A x \in Moved :
            /\ FullGroup(GetGroupKey(x))
            /\ FullGroup(calc.key)
            /\ InUpdateNotNew(x.UID)

\* The rules of group g that the delta of calculateChanges neither updates nor deletes.
Remaining(g) ==
    {x \in Range(calc.changes.AffectedGroups[g]) :
        /\ \A i \in 1..Len(calc.changes.Update) : calc.changes.Update[i].Existing.UID # x.UID
        /\ \A i \in 1..Len(calc.changes.Delete) : calc.changes.Delete[i].UID # x.UID}

\* The entries calculateAutomaticChanges appended for the rule.
Touches(x) ==
    {i \in (Len(calc.changes.Update) + 1)..Len(calc.final.Update) :
        calc.final.Update[i].Existing = x}

NewIndex(x) == calc.final.Update[CHOOSE i \in Touches(x) : TRUE].New.RuleGroupIndex

\* C8: after calculateAutomaticChanges, the rules of an origin group (an
\* affected group other than the target) that the delta neither updates nor
\* deletes have one entry each in the Update list, and these carry the group
\* indices 1..k, without gap or duplicate, in ascending order of the previous
\* group index, and differ from the persisted rule in nothing else.
C8_OriginReindex ==
    Calculated =>
        \A g \in DOMAIN calc.changes.AffectedGroups \ {calc.key} :
            /\ \A x \in Remaining(g) :
                 /\ Cardinality(Touches(x)) = 1
                 /\ \A i \in Touches(x) :
                      calc.final.Update[i].New = [x EXCEPT !.RuleGroupIndex = NewIndex(x)]
            /\ {NewIndex(x) : x \in Remaining(g)} = 1..Cardinality(Remaining(g))
            /\ \A x, y \in Remaining(g) :
                 x.RuleGroupIndex < y.RuleGroupIndex => NewIndex(x) < NewIndex(y)

C8_Witness ==
    /\ Calculated
    /\ \E g \in DOMAIN calc.changes.AffectedGroups \ {calc.key} :
         /\ Cardinality(Remaining(g)) = 2
         /\ \A x \in Remaining(g) : NewIndex(x) # x.RuleGroupIndex
         /\ \E x, y \in Remaining(g) : RuleID(x.UID) < RuleID(y.UID) /\ NewIndex(x) > NewIndex(y)

\* Every submitted rule carries the UID of a rule persisted in the target
\* group and differs from it at most in the group index (and the version).
ReorderOnly ==
    \A i \in 1..Len(calc.submittedRules) :
        \E x \in TargetRules :
            /\ x.UID = calc.submittedRules[i].UID
            /\ calc.submittedRules[i].Data = x.Data

\* The positions of the submission whose rule is persisted with another index.
Reindexed ==
    SelectSeq([i \in 1..Len(calc.submittedRules) |-> i],
              LAMBDA i : Persisted(rules, calc.submittedRules[i].UID).RuleGroupIndex # i)

\* C9: when every submitted rule carries the UID of a rule persisted in the
\* target group and differs from it only in the group index its position
\* implies, New is empty, Delete is exactly the persisted rules of the group
\* that the submission omits, and Update is exactly the submitted rules whose
\* new index differs from the persisted one, in submission order.
C9_ReorderAndOmit ==
    (calc.applied /\ ReorderOnly) =>
        /\ calc.changes.err = ""
        /\ calc.changes.New = <<>>
        /\ Range(calc.changes.Delete) = {x \in TargetRules : x.UID \notin SubmittedUIDs}
        /\ Len(calc.changes.Delete) = Cardinality(Range(calc.changes.Delete))
        /\ Len(calc.changes.Update) = Len(Reindexed)
        /\ \A k \in 1..Len(Reindexed) :
             LET u == calc.changes.Update[k]
                 r == calc.submittedRules[Reindexed[k]]
             IN /\ u.Existing = Persisted(rules, r.UID)
                /\ u.New = [u.Existing EXCEPT !.RuleGroupIndex = Reindexed[k], !.Version = 0]
                /\ u.Diff = {"RuleGroupIndex"}

C9_Witness ==
    /\ calc.applied /\ ReorderOnly
    /\ Cardinality(TargetRules) = 3
    /\ Len(calc.submittedRules) = 2
    /\ Len(calc.changes.Update) = 2
    /\ Len(calc.changes.Delete) = 1
    /\ calc.changes.Update[1].New.RuleGroupIndex = 1
    /\ calc.changes.Update[1].Existing.RuleGroupIndex = 2

\* ------------------------------------------------ claims on the bulk delete

\* The delete request has listed its selection.
Listed(q) == q.op = "delete" /\ q.pc \in {"Deleting", "Committed", "Done"}

Unauthorized(r) ==
    /\ req[r].pc = "Done"
    /\ req[r].err = "ErrAuthorization"
    /\ req[r].status = StatusUnauthorized
    /\ req[r].calls = <<>>
    /\ req[r].notified = <<>>
    /\ rules = WithoutRequest(r)

\* C11 (amended): when RouteDeleteAlertRules selects at least one rule and the
\* set S of selected rules the principal is authorized for is empty, the
\* request fails with 401, DeleteAlertRulesByUID is never called and the
\* scheduler's DeleteAlertRule is never called.
C11_DeleteUnauthorized ==
    \A r \in Requests :
        (Listed(req[r]) /\ Len(req[r].listed) > 0 /\ AuthorizedSelection(req[r]) = {})
        => Unauthorized(r)

C11_Witness ==
    /\ Listed(req["r1"]) /\ Len(req["r1"].listed) = 3
    /\ AuthorizedSelection(req["r1"]) = {}
    /\ Unauthorized("r1")

\* C11 as stated: whenever S is empty, also when no rule is selected.
C11_Original ==
    \A r \in Requests :
        (Listed(req[r]) /\ AuthorizedSelection(req[r]) = {}) => Unauthorized(r)

\* The authorized rules of the selection whose provenance, as the request read
\* it, is none or has no record.
Deletable(q) ==
    {x \in AuthorizedSelection(q) : q.provenances[x.UID] \in {NoRecord, ProvenanceNone}}

\* The rule was neither passed to DeleteAlertRulesByUID nor reported to the
\* scheduler by the request, and is still persisted.
Skipped(r, uid) ==
    /\ \A i \in 1..Len(req[r].calls) : uid \notin Range(req[r].calls[i].uids)
    /\ \A n \in Range(req[r].notified) : n.Key.UID # uid
    /\ IsPersisted(rules, uid)

ExpectedCalls(q) ==
    [i \in 1..(Len(q.finalChanges.Update) + Len(q.finalChanges.Delete)) |->
        IF i <= Len(q.finalChanges.Update)
        THEN [Method |-> "UpdateAlertRule",
              Key |-> [OrgID |-> OrgID, UID |-> q.finalChanges.Update[i].Existing.UID],
              Version |-> q.finalChanges.Update[i].Existing.Version + 1]
        ELSE [Method |-> "DeleteAlertRule",
              Key |-> [OrgID |-> OrgID,
                       UID |-> q.finalChanges.Delete[i - Len(q.finalChanges.Update)].UID],
              Version |-> 0]]

\* C13: a group update calls the scheduler only after its transaction has
\* committed; it then calls UpdateAlertRule once per entry of the final
\* (augmented) Update list, with key {org, Existing.UID} and version
\* Existing.Version + 1, and DeleteAlertRule once per entry of Delete, and
\* nothing else.
C13_NotifyAfterCommit ==
    \A r \in Requests :
        req[r].op = "update" =>
            /\ req[r].notified # <<>> =>
                 /\ req[r].pc \in {"Committed", "Done"}
                 /\ req[r].err = ""
                 /\ Len(req[r].notified) <= Len(ExpectedCalls(req[r]))
                 /\ req[r].notified = SubSeq(ExpectedCalls(req[r]), 1, Len(req[r].notified))
            /\ (req[r].pc = "Done" /\ req[r].status = StatusAccepted) =>
                 req[r].notified = ExpectedCalls(req[r])

C13_Witness ==
    /\ req["r1"].op = "update" /\ req["r1"].pc = "Done"
    /\ req["r1"].status = StatusAccepted
    /\ Len(req["r1"].finalChanges.Update) > Len(req["r1"].groupChanges.Update)
    /\ Len(req["r1"].finalChanges.Delete) > 0
    /\ req["r1"].notified = ExpectedCalls(req["r1"])
    /\ rules # WithoutRequest("r1")

\* The error classes of the group update and the status each is answered with.
InternalErrors ==
    {"failed to query database", "failed to add rules", "failed to update rules",
     "failed to delete rules", "failed to get alert rules quota", "transaction failed"}

ErrorClasses ==
    {[errs |-> {"ErrAlertRuleNotFound"}, status |-> StatusNotFound],
     [errs |-> {"ErrAlertRuleFailedValidation", "errProvisionedResource"},
      status |-> StatusBadRequest],
     [errs |-> {"ErrQuotaReached"}, status |-> StatusForbidden],
     [errs |-> {"ErrAuthorization"}, status |-> StatusUnauthorized],
     [errs |-> {"ErrOptimisticLock"}, status |-> StatusConflict],
     [errs |-> InternalErrors, status |-> StatusInternalServerError]}

\* C14: a failed group update is answered with the status of the class of its
\* error (rule-not-found, validation-failed with the provisioned-resource case,
\* quota-reached, unauthorized, optimistic-lock-conflict, generic-internal);
\* no error of another class is answered with that status, and the status is
\* never the success status.
C14_ErrorTaxonomy ==
    \A r \in Requests :
        (req[r].op = "update" /\ req[r].pc = "Done" /\ req[r].err # "")
        => /\ req[r].status # StatusAccepted
           /\ \E c \in ErrorClasses :
                /\ req[r].err \in c.errs
                /\ req[r].status = c.status
                /\ \A d \in ErrorClasses \ {c} :
                     /\ d.status # c.status
                     /\ \A e \in d.errs : ErrorStatus(e) # req[r].status

C14_Witness ==
    /\ req["r1"].op = "update" /\ req["r1"].pc = "Done"
    /\ req["r1"].err = "ErrQuotaReached"
    /\ req["r1"].status = StatusForbidden
    /\ req["r2"].pc = "Done"

\* The transaction of the request about to write, run with the quota service
\* answering limitReached, or failing when quotaFails.
WithQuota(r, limitReached, quotaFails) ==
    PersistChanges(rules, req[r].finalChanges, nextUID,
                   IF quotaFails THEN "quota" ELSE "none", limitReached)

\* C15: when the final delta has a New rule, the writes succeed and the quota
\* service reports the quota as reached, the transaction fails with
\* ErrQuotaReached (403) and commits none of its inserts, updates and deletes,
\* and the scheduler is not called; when the delta has no New rule the answer
\* of the quota service, and its failure, change nothing.
C15_QuotaAbort ==
    \A r \in Requests :
        /\ (req[r].op = "update" /\ req[r].pc = "Persisting") =>
              IF Len(req[r].finalChanges.New) > 0
              THEN WithQuota(r, FALSE, FALSE).err = "" =>
                      /\ WithQuota(r, TRUE, FALSE).err = "ErrQuotaReached"
                      /\ WithQuota(r, TRUE, FALSE).rules = rules
                      /\ ErrorStatus(WithQuota(r, TRUE, FALSE).err) = StatusForbidden
              ELSE /\ WithQuota(r, TRUE, FALSE) = WithQuota(r, FALSE, FALSE)
                   /\ WithQuota(r, TRUE, TRUE) = WithQuota(r, FALSE, FALSE)
        /\ (req[r].op = "update" /\ req[r].err = "ErrQuotaReached") =>
              /\ Len(req[r].finalChanges.New) > 0
              /\ req[r].pc = "Done"
              /\ req[r].status = StatusForbidden
              /\ req[r].notified = <<>>
              /\ rules = WithoutRequest(r)

C15_Witness ==
    /\ req["r1"].op = "update" /\ req["r1"].err = "ErrQuotaReached"
    /\ Len(req["r1"].calls) = 3
    /\ Len(req["r1"].finalChanges.New) = 2
    /\ rules = WithoutRequest("r1")

\* ------------------------------------------- claims on the provenance guard

\* The affected groups of the delta that hold a rule whose provenance record
\* exists and is other than none.
GroupsWithProvisioned ==
    {g \in DOMAIN calc.changes.AffectedGroups :
        \E x \in Range(calc.changes.AffectedGroups[g]) :
            provenances[x.UID] \in {ProvenanceAPI, ProvenanceFile}}

\* C16: verifyProvisionedRulesNotAffected returns nil exactly when no rule of
\* any AffectedGroups entry has a provenance record other than none (a missing
\* record counts as none); otherwise it returns errProvisionedResource with a
\* message that names every affected group holding a provisioned rule, each
\* once, and no other group (GetProvenances not failing).
C16_GuardResult ==
    calc.guard.applied =>
        /\ calc.guard.err = "" <=> GroupsWithProvisioned = {}
        /\ calc.guard.err # "" => calc.guard.err = "errProvisionedResource"
        /\ Range(calc.guard.errorMsg) = GroupsWithProvisioned
        /\ Len(calc.guard.errorMsg) = Cardinality(GroupsWithProvisioned)

C16_Witness ==
    /\ calc.guard.applied
    /\ calc.guard.err = "errProvisionedResource"
    /\ Cardinality(DOMAIN calc.changes.AffectedGroups) = 2
    /\ Len(calc.guard.errorMsg) = 2
    /\ \E g \in GroupsWithProvisioned :
         Cardinality({x \in Range(calc.changes.AffectedGroups[g]) :
                         provenances[x.UID] \in {ProvenanceAPI, ProvenanceFile}}) = 2

\* ------------------------------------------------ claims on the read handlers

\* The rules persisted in the group, and whether the principal of the read
\* request has data-source access to every one of them.
GroupOf(k) == {x \in rules : GetGroupKey(x) = k}
Accessible(k) == \A x \in GroupOf(k) : x.Data \in calc.read.principal.access

\* The groups of the namespaces that hold rules all of which are accessible.
AccessibleGroups(namespaceUIDs) ==
    {k \in GroupKeys : k.NamespaceUID \in namespaceUIDs /\ GroupOf(k) # {} /\ Accessible(k)}

\* The response holds exactly the groups ks, each once and with all its rules.
ReturnsComplete(ks) ==
    /\ {g.key : g \in calc.read.response.groups} = ks
    /\ Cardinality(calc.read.response.groups) = Cardinality(ks)
    /\ \A g \in calc.read.response.groups :
         /\ Range(g.Rules) = GroupOf(g.key)
         /\ Len(g.Rules) = Cardinality(GroupOf(g.key))

\* Read access without a dashboard filter: all-or-nothing per group.
UnfilteredRead ==
    LET rd == calc.read
        k == AlertRuleGroupKey(rd.namespace, rd.group)
    IN (rd.applied /\ rd.dashboardUID = "") =>
        /\ rd.route = "group" =>
             IF Accessible(k) THEN rd.response.status = StatusAccepted /\ ReturnsComplete({k})
             ELSE rd.response.status = StatusUnauthorized /\ rd.response.groups = {}
        /\ rd.route = "namespace" => ReturnsComplete(AccessibleGroups({rd.namespace}))
        /\ rd.route = "all" => ReturnsComplete(AccessibleGroups(rd.namespaceMap))

\* C17: a rule group is visible to a principal only if the principal has
\* data-source access to every rule of the group: RouteGetRulesGroupConfig
\* answers 401 when access to a rule of the group is missing and returns all
\* rules of the group otherwise, and RouteGetRulesConfig and
\* RouteGetNamespaceRulesConfig omit every group with an inaccessible rule and
\* return every fully accessible group complete.
C17_ReadAllOrNothing ==
    /\ calc.read.applied => \A g \in calc.read.response.groups : Accessible(g.key)
    /\ UnfilteredRead

\* A group with an inaccessible rule was returned.
C17_Witness ==
    /\ calc.read.applied
    /\ \E g \in calc.read.response.groups : ~Accessible(g.key) /\ Len(g.Rules) > 0

\* C18: in every group returned by RouteGetRulesConfig,
\* RouteGetNamespaceRulesConfig and RouteGetRulesGroupConfig the rules appear in
\* ascending order of their persisted group index, whatever order the store
\* returned them in.
C18_ReadOrdering ==
    calc.read.applied =>
        \A g \in calc.read.response.groups :
            \A i, j \in 1..Len(g.Rules) :
                i < j => g.Rules[i].RuleGroupIndex <= g.Rules[j].RuleGroupIndex

C18_Witness ==
    /\ calc.read.applied
    /\ calc.read.route = "namespace"
    /\ \E g \in calc.read.response.groups :
         /\ Len(g.Rules) = 3
         /\ \E i, j \in 1..Len(calc.read.listed) :
              /\ i < j
              /\ GetGroupKey(calc.read.listed[i]) = g.key
              /\ GetGroupKey(calc.read.listed[j]) = g.key
              /\ calc.read.listed[i].RuleGroupIndex > calc.read.listed[j].RuleGroupIndex

\* The rules a bulk delete of namespace n and group g is about: those of the
\* user's org whose namespace is n and, when g is given, whose group is g.
InScope(q, x) ==
    /\ x.OrgID = OrgID
    /\ x.NamespaceUID = q.namespace
    /\ q.group # "" => x.RuleGroup = q.group

ScopeUIDs(q) == {x.UID : x \in {y \in q.before : InScope(q, y)}}

\* C19: RouteDeleteAlertRules for namespace n and group g deletes and notifies
\* only rules whose namespace is n and, when g is non-empty, whose group is g;
\* rules of the same namespace in other groups, rules of a same-named group in
\* another namespace and rules of other orgs stay in the store unchanged and
\* produce no scheduler notification.
C19_DeleteScope ==
    LET q == req["r1"]
    IN q.op = "delete" =>
         /\ \A i \in 1..Len(q.calls) : Range(q.calls[i].uids) \subseteq ScopeUIDs(q)
         /\ \A i \in 1..Len(q.notified) :
              /\ q.notified[i].Key.UID \in ScopeUIDs(q)
              /\ q.notified[i].Key.OrgID = OrgID
         /\ \A x \in q.before :
              ~InScope(q, x) => /\ x \in rules
                                /\ scheduler[x.UID].Method = "none"

C19_Witness ==
    LET q == req["r1"]
    IN /\ q.op = "delete" /\ q.pc = "Done" /\ q.status = StatusAccepted
       /\ q.group # ""
       /\ Len(q.notified) > 0
       /\ \E x \in rules : x.OrgID = OrgID /\ x.NamespaceUID = q.namespace
                           /\ x.RuleGroup # q.group
       /\ \E x \in rules : x.OrgID = OrgID /\ x.NamespaceUID # q.namespace
                           /\ x.RuleGroup = q.group
       /\ \E x \in rules : x.OrgID = OtherOrg /\ x.NamespaceUID = q.namespace
                           /\ x.RuleGroup = q.group

\* The group indices persisted in group k are exactly 1..n, each carried once.
GroupIndices(rs, k) == {x.RuleGroupIndex : x \in {y \in rs : GetGroupKey(y) = k}}

UniqueAndContiguous(rs, k) ==
    LET members == {y \in rs : GetGroupKey(y) = k}
    IN /\ \A a, b \in members : a.RuleGroupIndex = b.RuleGroupIndex => a = b
       /\ GroupIndices(rs, k) = 1..Cardinality(members)

\* C20: after any successful mutation through this core (group update,
\* cross-group move or bulk delete) the group indices of the rules persisted in
\* every group are unique and contiguous.
C20_GroupIndexInvariant ==
    \A k \in GroupKeys : UniqueAndContiguous(rules, k)

\* No UID appears twice in the submission.
DistinctUIDs(q) ==
    \A i, j \in 1..Len(q.submittedRules) :
        (i # j /\ q.submittedRules[i].UID # NoUID)
        => q.submittedRules[i].UID # q.submittedRules[j].UID

\* A group update or move that names no UID twice and runs alone keeps the
\* indices of every group unique and contiguous.
SingleUpdateKeepsIndices ==
    (req["r1"].op # "delete" /\ DistinctUIDs(req["r1"]) /\ req["r2"].pc = "Idle")
    => \A k \in GroupKeys : UniqueAndContiguous(rules, k)

\* A bulk delete that removed part of a group and was answered with 202.
C20_Witness ==
    LET q == req["r1"]
    IN /\ q.op = "delete" /\ q.pc = "Done" /\ q.status = StatusAccepted
       /\ Len(q.deletableRules) > 0
       /\ \E x \in rules : x.NamespaceUID = q.namespace /\ x.RuleGroup = q.group
       /\ \E k \in GroupKeys : ~UniqueAndContiguous(rules, k)

\* The request's transaction commits in this step.
Commits(r) == req[r].pc # "Committed" /\ req'[r].pc = "Committed"

\* C21: over any sequence of committed group updates the persisted version of
\* a rule UID never decreases and strictly increases with every persisted
\* change to that UID, and the version announced to the scheduler for an
\* update (Existing.Version+1) is the version that commit persisted.
C21_VersionMonotonic ==
    [][/\ \A x \in rules : \A y \in rules' :
            x.UID = y.UID => /\ y.Version >= x.Version
                             /\ y # x => y.Version > x.Version
       /\ \A r \in Requests :
            (Commits(r) /\ req'[r].op = "update") =>
              \A n \in Range(UpdateNotifications(req'[r].finalChanges)) :
                n.Method = "UpdateAlertRule" =>
                  /\ IsPersisted(rules', n.Key.UID)
                  /\ Persisted(rules', n.Key.UID).Version = n.Version]_vars

C21_Witness ==
    LET q == req["r1"]
    IN /\ q.op = "update" /\ q.pc = "Done" /\ q.status = StatusAccepted
       /\ req["r2"].pc = "Done"
       /\ \E i, j \in 1..Len(q.finalChanges.Update) :
            /\ q.finalChanges.Update[i].Diff # {}
            /\ q.finalChanges.Update[j].Diff = {}
            /\ Persisted(rules, q.finalChanges.Update[i].Existing.UID).Version
                 = q.finalChanges.Update[i].Existing.Version + 1
            /\ scheduler[q.finalChanges.Update[j].Existing.UID].Version
                 = q.finalChanges.Update[j].Existing.Version + 1
       /\ \E x \in rules : x.Version >= 2 /\ x.UID \in {u.Existing.UID : u \in Range(req["r2"].finalChanges.Update)}

\* Both clients run a group update with a non-empty delta calculated from the
\* same table, the deltas share an affected group, and the second client's
\* transaction has committed while the first was still open.
SharedGroups ==
    DOMAIN req["r1"].groupChanges.AffectedGroups
        \cap DOMAIN req["r2"].groupChanges.AffectedGroups

Concurrent ==
    /\ req["r1"].op = "update" /\ req["r2"].op = "update"
    /\ req["r2"].pc \in {"Committed", "Done"}
    /\ req["r1"].before = req["r2"].before
    /\ ~isEmpty(req["r1"].groupChanges) /\ ~isEmpty(req["r2"].groupChanges)
    /\ SharedGroups # {}

\* C22: when two group updates with non-empty deltas that share an affected
\* group calculate from the same persisted state and run concurrently, at most
\* one commits; the other fails with the optimistic-lock conflict and applies
\* nothing, so no group ends in a mix of the two change sets.
C22_UpdatesFence ==
    (Concurrent /\ Finished(req["r1"])) =>
        /\ Failed(req["r1"])
        /\ ~StoreFault(req["r1"]) => req["r1"].err = "ErrOptimisticLock"
        /\ rules = WithoutRequest("r1")

\* The first client's delta writes a persisted rule of a shared group.
LocksSharedGroup ==
    \E i \in 1..Len(req["r1"].finalChanges.Update) :
        GetGroupKey(req["r1"].finalChanges.Update[i].Existing) \in SharedGroups

\* The fence holds for the deltas that update a rule of a shared group.
UpdatesFenceWhenLocked ==
    (Concurrent /\ Finished(req["r1"]) /\ LocksSharedGroup) =>
        /\ Failed(req["r1"])
        /\ ~StoreFault(req["r1"]) => req["r1"].err = "ErrOptimisticLock"
        /\ rules = WithoutRequest("r1")

\* Both clients committed although their deltas share an affected group, and a
\* rule the second client moved is gone from the group it was moved to.
C22_Witness ==
    /\ Concurrent
    /\ req["r1"].pc = "Done" /\ req["r1"].status = StatusAccepted
    /\ req["r2"].pc = "Done" /\ req["r2"].status = StatusAccepted
    /\ req["r2"].groupKey = GroupC
    /\ \A x \in rules : GetGroupKey(x) # GroupC

\* The scheduler's view of a rule, from the last call it received for it,
\* agrees with the table: a rule no longer persisted was last told deleted, and
\* a persisted rule last told updated was told its persisted version.
TracksStore(uid) ==
    /\ (scheduler[uid].Method # "none" /\ ~IsPersisted(rules, uid))
         => scheduler[uid].Method = "DeleteAlertRule"
    /\ (scheduler[uid].Method = "UpdateAlertRule" /\ IsPersisted(rules, uid))
         => scheduler[uid].Version = Persisted(rules, uid).Version

AllCompleted == \A r \in Requests : req[r].pc = "Done"

\* C23: under any interleaving of concurrent group updates and bulk deletes,
\* once every request has completed the scheduler's view, taken from the
\* notifications in the order it received them, matches the store: the last
\* notification for a deleted rule is a delete, and the last update
\* notification for a persisted rule carries its persisted version.
C23_SchedulerTracksStore ==
    AllCompleted => \A uid \in UIDs : TracksStore(uid)

\* The same when only the first client has made a request.
SchedulerTracksSingleRequest ==
    (req["r1"].pc = "Done" /\ req["r2"].pc = "Idle") => \A uid \in UIDs : TracksStore(uid)

\* A bulk delete and a group update both completed with 202 and the scheduler
\* last heard an update for a rule the table no longer holds.
C23_Witness ==
    /\ AllCompleted
    /\ req["r1"].op = "delete"
    /\ \A r \in Requests : req[r].status = StatusAccepted
    /\ \E uid \in UIDs : /\ scheduler[uid].Method = "UpdateAlertRule"
                         /\ ~IsPersisted(rules, uid)

\* The submitted rules without a UID, in submission order.
WithoutUID == SelectSeq(calc.submittedRules, LAMBDA r : r.UID = NoUID)

\* C24: calculateChanges puts a submitted rule into New if and only if its UID
\* is empty; a submitted rule with a non-empty UID is never inserted as New: it
\* is matched to a persisted rule (Update or unchanged) or the calculation
\* fails.
C24_NewIffNoUID ==
    calc.applied =>
        /\ \A i \in 1..Len(calc.changes.New) : calc.changes.New[i].UID = NoUID
        /\ calc.changes.err = "" =>
             /\ calc.changes.New = WithoutUID
             /\ \A i \in 1..Len(calc.submittedRules) :
                  calc.submittedRules[i].UID # NoUID
                  => IsPersisted(rules, calc.submittedRules[i].UID)
        /\ (\E i \in 1..Len(calc.submittedRules) :
               /\ calc.submittedRules[i].UID # NoUID
               /\ ~IsPersisted(rules, calc.submittedRules[i].UID))
           => calc.changes.err = "ErrAlertRuleNotFound"

\* A calculation with a new rule and a rule matched in another group.
C24_Witness ==
    /\ calc.applied /\ calc.changes.err = ""
    /\ Len(calc.submittedRules) = 2
    /\ Len(calc.changes.New) = 1
    /\ Len(calc.changes.Update) = 1
    /\ GetGroupKey(calc.changes.Update[1].Existing) # calc.key

\* The fields that change as a side effect of a write.
Volatile == {"ID", "Version", "Updated"}

\* The persisted rule of the target group a submitted rule is matched to.
MatchedInTarget(r) == \E e \in rules : e.UID = r.UID /\ GetGroupKey(e) = calc.key

\* All fields in which the persisted rule and the submitted one differ.
Differing(e, new) == {f \in DOMAIN e : e[f] # new[f]}

UpdateEntriesOf(e) ==
    {k \in 1..Len(calc.changes.Update) : calc.changes.Update[k].Existing = e}

\* C25: a submitted rule matched by UID to a persisted rule of the target group
\* that differs from it only in ID, Version or Updated produces no Update entry
\* in calculateChanges; a difference in any other field produces exactly one
\* Update entry pairing the persisted rule with the submitted one.
C25_VolatileIgnored ==
    (calc.applied /\ calc.changes.err = "") =>
        \A i \in 1..Len(calc.submittedRules) :
            MatchedInTarget(calc.submittedRules[i]) =>
                LET e == Persisted(rules, calc.submittedRules[i].UID)
                    new == PatchPartialAlertRule(e, calc.submittedRules[i])
                IN IF Differing(e, new) \subseteq Volatile
                   THEN UpdateEntriesOf(e) = {}
                   ELSE /\ Cardinality(UpdateEntriesOf(e)) = 1
                        /\ \A k \in UpdateEntriesOf(e) :
                             /\ calc.changes.Update[k].New = new
                             /\ calc.changes.Update[k].Diff = Differing(e, new) \ Volatile

\* Two rules matched in the target group: one differs from the persisted rule
\* in ID, Version and Updated and in nothing else, the other in its query.
C25_Witness ==
    /\ calc.applied /\ calc.changes.err = ""
    /\ Len(calc.submittedRules) = 2
    /\ \A i \in 1..2 : MatchedInTarget(calc.submittedRules[i])
    /\ \E i \in 1..2 :
         LET e == Persisted(rules, calc.submittedRules[i].UID)
         IN /\ Differing(e, PatchPartialAlertRule(e, calc.submittedRules[i])) = Volatile
            /\ UpdateEntriesOf(e) = {}
    /\ \E k \in 1..Len(calc.changes.Update) :
         calc.changes.Update[k].Diff = {"Data"}

\* The moves a group-update request can make from one position to the next.
UpdateSteps ==
    {<<"Idle", "Authorizing">>, <<"Idle", "Committed">>, <<"Idle", "Done">>,
     <<"Authorizing", "GuardingProvenance">>, <<"Authorizing", "Done">>,
     <<"GuardingProvenance", "Augmenting">>, <<"GuardingProvenance", "Done">>,
     <<"Augmenting", "Persisting">>,
     <<"Persisting", "Committed">>, <<"Persisting", "Done">>,
     <<"Committed", "Done">>}

\* What holds of every step of the first client's group update.
UpdateStepOrder ==
    LET q == req["r1"]
        n == req'["r1"]
    IN n.op = "update" =>
         /\ n.pc # q.pc => <<q.pc, n.pc>> \in UpdateSteps
         /\ (q.pc = "Idle" /\ n.pc = "Committed") =>
              isEmpty(n.groupChanges) /\ n.calls = <<>>
         /\ n.calls # q.calls => q.pc = "Persisting"
         /\ (q.pc = "Authorizing" /\ n.pc = "Done") =>
              /\ n.err = "ErrAuthorization"
              /\ n.status = StatusUnauthorized
              /\ n.calls = <<>>
              /\ rules' = rules
         /\ (q.pc = "GuardingProvenance" /\ n.pc = "Done") =>
              /\ n.err = "errProvisionedResource"
              /\ n.calls = <<>>
              /\ rules' = rules

\* A request that has made a store call has passed the provenance guard, and
\* one that failed authorization made no call and told the scheduler nothing.
WritesAfterGuards ==
    LET q == req["r1"]
    IN q.op = "update" =>
         /\ q.calls # <<>> =>
              verifyProvisionedRulesNotAffected(provenances, q.groupChanges) = ""
         /\ q.pc \in {"Augmenting", "Persisting"} =>
              verifyProvisionedRulesNotAffected(provenances, q.groupChanges) = ""
         /\ q.err = "ErrAuthorization" =>
              /\ q.status = StatusUnauthorized
              /\ q.calls = <<>> /\ q.notified = <<>>
              /\ q.finalChanges = NilChanges

\* C26: a group-update request moves Calculating, Authorizing,
\* GuardingProvenance, Augmenting, Persisting, Committed in this order; no
\* InsertAlertRules, UpdateAlertRules or DeleteAlertRulesByUID call is made
\* before both the authorization of the delta and the provenance guard have
\* succeeded, and an authorization failure ends the request as Unauthorized
\* without the provenance guard or any write being run.
C26_StepOrder == [][UpdateStepOrder]_vars /\ []WritesAfterGuards

\* A request ended as Unauthorized although the guard, had it run, would have
\* refused the delta as well.
C26_Witness ==
    LET q == req["r1"]
    IN /\ q.op = "update" /\ q.pc = "Done" /\ q.err = "ErrAuthorization"
       /\ verifyProvisionedRulesNotAffected(provenances, q.groupChanges) # ""

\* No UID is submitted twice.
DistinctSubmitted ==
    \A i, j \in 1..Len(calc.submittedRules) :
        (i # j /\ calc.submittedRules[i].UID # NoUID)
        => calc.submittedRules[i].UID # calc.submittedRules[j].UID

AffectedRules ==
    UNION {Range(calc.final.AffectedGroups[g]) : g \in DOMAIN calc.final.AffectedGroups}

InUpdate(x) == {i \in 1..Len(calc.final.Update) : calc.final.Update[i].Existing.UID = x.UID}
InDelete(x) == {i \in 1..Len(calc.final.Delete) : calc.final.Delete[i].UID = x.UID}

\* C27: provided the submitted rules carry pairwise distinct UIDs, after
\* calculateAutomaticChanges every rule listed in any AffectedGroups entry
\* appears exactly once in the final delta, in Update or in Delete and never
\* in both, so every surviving rule of every affected group is written.
C27_AffectedCovered ==
    (Calculated /\ DistinctSubmitted) =>
        \A x \in AffectedRules :
            /\ Cardinality(InUpdate(x)) + Cardinality(InDelete(x)) = 1
            /\ \A i \in InUpdate(x) : calc.final.Update[i].Existing = x

\* Two affected groups; the final delta holds a rule the submission changed, a
\* rule the augmenter added and a deleted rule.
C27_Witness ==
    /\ Calculated /\ DistinctSubmitted
    /\ Cardinality(DOMAIN calc.final.AffectedGroups) = 2
    /\ Len(calc.changes.Update) > 0
    /\ Len(calc.final.Update) > Len(calc.changes.Update)
    /\ Len(calc.final.Delete) > 0
    /\ Cardinality(AffectedRules) = 4

\* The entries calculateAutomaticChanges appended to the Update list.
Added == (Len(calc.changes.Update) + 1)..Len(calc.final.Update)

\* What the augmenter leaves alone, apart from AffectedGroups.
AugmenterFrame ==
    /\ calc.final.GroupKey = calc.changes.GroupKey
    /\ calc.final.New = calc.changes.New
    /\ calc.final.Delete = calc.changes.Delete
    /\ Len(calc.final.Update) >= Len(calc.changes.Update)
    /\ SubSeq(calc.final.Update, 1, Len(calc.changes.Update)) = calc.changes.Update
    /\ \A i \in Added :
         LET u == calc.final.Update[i]
         IN /\ GetGroupKey(u.Existing) = calc.key => (u.New = u.Existing /\ u.Diff = {})
            /\ u.New.RuleGroupIndex # u.Existing.RuleGroupIndex
                 => GetGroupKey(u.Existing) # calc.key
            /\ u.New = [u.Existing EXCEPT !.RuleGroupIndex = u.New.RuleGroupIndex]

\* The lists of AffectedGroups hold the same rules as before; the list of the
\* target group is also in the same order.
SameAffectedRules ==
    /\ DOMAIN calc.final.AffectedGroups = DOMAIN calc.changes.AffectedGroups
    /\ \A g \in DOMAIN calc.changes.AffectedGroups :
         /\ Len(calc.final.AffectedGroups[g]) = Len(calc.changes.AffectedGroups[g])
         /\ Range(calc.final.AffectedGroups[g]) = Range(calc.changes.AffectedGroups[g])
         /\ g = calc.key => calc.final.AffectedGroups[g] = calc.changes.AffectedGroups[g]
         /\ g # calc.key =>
              calc.final.AffectedGroups[g] = SortByGroupIndex(calc.changes.AffectedGroups[g])

\* C28 (amended): calculateAutomaticChanges leaves GroupKey, New and Delete
\* unchanged and AffectedGroups unchanged up to the order of the lists of the
\* groups other than the target, which it sorts by group index; it keeps every
\* original Update entry, in order, as a prefix of the new Update list; every
\* entry it adds for a rule of the target group is a no-op (New equals
\* Existing, empty diff), and only rules of other affected groups can get a
\* changed group index.
C28_AugmenterFrame ==
    Calculated => (AugmenterFrame /\ SameAffectedRules)

\* C28 as stated: AffectedGroups is unchanged as well.
C28_Original ==
    Calculated => (AugmenterFrame /\ calc.final.AffectedGroups = calc.changes.AffectedGroups)

\* The augmenter added a no-op for a rule of the target group and a new index
\* for a rule of another group whose list it put into another order.
C28_Witness ==
    /\ Calculated
    /\ \E i \in Added : GetGroupKey(calc.final.Update[i].Existing) = calc.key
    /\ \E i \in Added :
         calc.final.Update[i].New.RuleGroupIndex # calc.final.Update[i].Existing.RuleGroupIndex
    /\ \E g \in DOMAIN calc.changes.AffectedGroups :
         calc.final.AffectedGroups[g] # calc.changes.AffectedGroups[g]

Unprovisioned(uid) == provenances[uid] \in {NoRecord, ProvenanceNone}

\* C29: RouteDeleteAlertRules never deletes a rule whose provenance is other
\* than none at the moment the delete is applied, even when SetProvenance for
\* that rule runs concurrently with the request.
C29_DeleteHonoursProvenance ==
    [][\A x \in rules \ rules' : Unprovisioned(x.UID)]_vars

\* Against the provenances as the request read them, no provisioned rule is
\* deleted.
DeleteHonoursProvenancesRead ==
    [][\A x \in rules \ rules' :
          req["r1"].provenances[x.UID] \in {NoRecord, ProvenanceNone}]_vars

\* A delete answered 202 removed a rule that was provisioned by then.
C29_Witness ==
    LET q == req["r1"]
    IN /\ q.op = "delete" /\ q.pc = "Done" /\ q.status = StatusAccepted
       /\ \E i \in 1..Len(q.deletableRules) :
            /\ ~Unprovisioned(q.deletableRules[i])
            /\ ~IsPersisted(rules, q.deletableRules[i])

\* The listing of the delete request found no rule.
EmptySelection(q) == q.op = "delete" /\ q.pc # "Listing" /\ Len(q.listed) = 0

\* C30: when the namespace, or the requested group in it, holds no rules,
\* RouteDeleteAlertRules succeeds with 202, calls DeleteAlertRulesByUID zero
\* times and sends zero scheduler notifications; it does not fail as
\* Unauthorized.
C30_EmptyDelete ==
    \A r \in Requests :
        EmptySelection(req[r])
        => /\ req[r].pc \in {"Committed", "Done"}
           /\ req[r].err = ""
           /\ req[r].calls = <<>>
           /\ req[r].notified = <<>>
           /\ req[r].deletableRules = <<>>
           /\ rules = WithoutRequest(r)
           /\ req[r].pc = "Done" => /\ req[r].status = StatusAccepted
                                    /\ req[r].message = "rules deleted"

\* An empty group was deleted by a principal without access to any data source.
C30_Witness ==
    LET q == req["r1"]
    IN /\ q.op = "delete" /\ q.pc = "Done" /\ q.status = StatusAccepted
       /\ Len(q.listed) = 0
       /\ q.group # ""
       /\ ~q.principal.IsDisabled /\ q.principal.access = {}
       /\ \E x \in rules : x.NamespaceUID = q.namespace

====
